---- MODULE Spec2Model ----
(***************************************************************************)
(* Matching engine of GoQuant_assignment (src/app): per-symbol limit order *)
(* books with price-time priority, the taker/maker matcher, the order-type *)
(* policy of MatchingEngine.submit_order, cancel_order and the trigger     *)
(* store with its activation scan (process_triggers / _submit_activated).  *)
(*                                                                         *)
(* Decimals are modelled by integers (prices and quantities in whole       *)
(* units, fees in units of 10^-8).  An Order is a record; the containers   *)
(* of the program hold references to Order objects, and since every Order  *)
(* is referenced by at most one long-lived container the model keeps the   *)
(* record inside the container that holds it.  The fields timestamp,       *)
(* client_order_id and user_id are never read by the engine's logic and    *)
(* are left out.                                                           *)
(*                                                                         *)
(* Scheduling: every coroutine of the engine runs on one asyncio event     *)
(* loop.  No critical section (async with self.locks[symbol]) contains a   *)
(* suspension point, so a symbol lock is never held across a yield, the    *)
(* acquire never suspends, and submit_order, cancel_order and one whole    *)
(* process_triggers pass are each one atomic step.                         *)
(***************************************************************************)
EXTENDS Integers, Sequences, FiniteSets, TLC

\* ------------------------------------------------------------------ bounds
\* Submits are accepted while the shared id counter is at most MaxId.
MaxId == 3
\* Prices of requests range over 1..MaxPrice; quantities are -1 (a
\* non-positive quantity) and 1..MaxQty.
MaxPrice == 2
MaxQty == 2
\* A conditional order is accepted while fewer than MaxTriggers are pending.
MaxTriggers == 1
\* The server process is restarted at most MaxRestarts times.
MaxRestarts == 1
\* Where restarts are considered, the first process mints ids up to
\* MaxIdRestart and a restarted one up to MaxIdRestarted.
MaxIdRestart == 2
MaxIdRestarted == 1
\* save_state is called at most MaxSaves times, with data out of
\* MaxSnapshots different snapshots, each written in Chunks pieces.
MaxSaves == 3
MaxSnapshots == 2
Chunks == 2
\* MaxPush WebSocket connections and MaxPull streaming requests come in;
\* the broadcasts the engine schedules and the ticks of the heartbeat task
\* are MaxTasks together.
MaxPush == 2
MaxPull == 1
MaxTasks == 2
\* GET /orderbook asks for depths 0..MaxDepth
MaxDepth == 2
\* scans over several pending orders: ids minted and orders pending
MaxIdScan == 3
MaxPending == 2
\* tasks on the event loop in the runs that follow the locks
MaxLockTasks == 3

\* ------------------------------------------------------------- constants
\* MatchingEngine.__init__ defaults
recent_trades_limit == 1000
\* maker_rebate_bps = -1.0 and taker_fee_bps = 2.5, in tenths of a basis point
maker_rebate_bps_x10 == -10
taker_fee_bps_x10 == 25
\* asyncio.Queue() of the register_..._stream calls: maxsize
QueueMaxsize == 0

\* Python None for optional decimals; no price, quantity or id equals it.
Null == 0 - 999

Symbols == {"BTC-USD"}
Sides == {"buy", "sell"}
OrderTypes == {"market", "limit", "ioc", "fok", "stop", "stop_limit", "take_profit"}
TriggerTypes == {"stop", "stop_limit", "take_profit"}

Prices == 1..MaxPrice
Quantities == {0 - 1} \cup (1..MaxQty)
OptPrices == Prices \cup {Null}

\* The OrderRequest bodies the API accepts (models.py declares no validator):
\* any quantity, any optional price.  price, stop_price and
\* take_profit_price are varied only for the order types that read them.
OrderRequest ==
    { r \in [symbol : Symbols, side : Sides, type : OrderTypes,
             quantity : Quantities, price : OptPrices,
             stop_price : OptPrices, take_profit_price : OptPrices] :
        /\ (r.price # Null => r.type # "market")
        /\ (r.stop_price # Null => r.type \in {"stop", "stop_limit"})
        /\ (r.take_profit_price # Null => r.type = "take_profit") }

\* the `since` of a poll: absent, or a trade id
SinceIds == {Null} \cup (1..(2 * MaxId))

\* ------------------------------------------------------------ sequences
Min2(a, b) == IF a <= b THEN a ELSE b
SetMin(S) == CHOOSE x \in S : \A y \in S : x <= y
SetMax(S) == CHOOSE x \in S : \A y \in S : x >= y

RECURSIVE SumSeq(_)
SumSeq(s) == IF s = <<>> THEN 0 ELSE Head(s) + SumSeq(Tail(s))

RECURSIVE Concat(_)
Concat(ss) == IF ss = <<>> THEN <<>> ELSE Head(ss) \o Concat(Tail(ss))

\* Python dict operations on a function with a finite domain
DictDel(d, k) == [x \in DOMAIN d \ {k} |-> d[x]]
DictPut(d, k, v) == [x \in DOMAIN d \cup {k} |-> IF x = k THEN v ELSE d[x]]

EmptyDict == [x \in {} |-> 0]

\* ------------------------------------------------------------- OrderBook
\* An Order (models.py, dataclass Order) created by submit_order from a request.
NewOrder(req, id) ==
    [order_id |-> id, symbol |-> req.symbol, side |-> req.side, type |-> req.type,
     quantity |-> req.quantity, remaining |-> req.quantity, price |-> req.price,
     stop_price |-> req.stop_price, take_profit_price |-> req.take_profit_price]

\* OrderBook.__init__.  bids and asks are the SortedDicts price -> FIFO of
\* orders (PriceLevel.queue; PriceLevel.price is the key).  arrival and
\* executed are history variables, not program state: arrival lists the ids
\* of the resting orders in the order add_limit received them, executed maps
\* an order id to the quantity of the raw fills it took part in.
NewBook ==
    [bids |-> EmptyDict, asks |-> EmptyDict, order_index |-> EmptyDict,
     last_trade_price |-> Null, arrival |-> <<>>, executed |-> EmptyDict]

Opposite(side) == IF side = "buy" THEN "sell" ELSE "buy"

get_side_book(book, side) == IF side = "buy" THEN book.bids ELSE book.asks

SetSideBook(book, side, sd) ==
    IF side = "buy" THEN [book EXCEPT !.bids = sd] ELSE [book EXCEPT !.asks = sd]

\* PriceLevel.total_quantity
total_quantity(queue) == SumSeq([i \in 1..Len(queue) |-> queue[i].remaining])

\* OrderBook.best_prices: <<best bid, best ask>>, Null for an empty side
best_prices(book) ==
    << IF DOMAIN book.bids = {} THEN Null ELSE SetMax(DOMAIN book.bids),
       IF DOMAIN book.asks = {} THEN Null ELSE SetMin(DOMAIN book.asks) >>

\* level.queue.append(order)
QueueInsert(queue, order) == Append(queue, order)

\* OrderBook.add_limit, past its assertion (order.price is not None)
add_limit(book, order) ==
    LET sd == get_side_book(book, order.side)
        queue == IF order.price \in DOMAIN sd THEN sd[order.price] ELSE <<>>
        placed == SetSideBook(book, order.side,
                              DictPut(sd, order.price, QueueInsert(queue, order)))
    IN [placed EXCEPT
          !.order_index = DictPut(@, order.order_id, <<order.side, order.price>>),
          !.arrival = Append(@, order.order_id)]

\* new_queue of remove_order: the orders of the level other than order_id,
\* in the order they had
QueueWithoutFrom(queue, order_id) ==
    SubSeq(queue, 1, SetMin({i \in 1..Len(queue) : queue[i].order_id = order_id}
                            \cup {Len(queue) + 1}) - 1)
QueueWithout(queue, order_id) == SelectSeq(queue, LAMBDA o : o.order_id # order_id)

\* OrderBook.remove_order: [book, removed], removed = <<>> for None
remove_order(book, order_id) ==
    IF order_id \notin DOMAIN book.order_index
    THEN [book |-> book, removed |-> <<>>]
    ELSE LET side == book.order_index[order_id][1]
             price == book.order_index[order_id][2]
             sd == get_side_book(book, side)
         IN IF price \notin DOMAIN sd
            THEN [book |-> [book EXCEPT !.order_index = DictDel(@, order_id)],
                  removed |-> <<>>]
            ELSE LET hit == SelectSeq(sd[price], LAMBDA o : o.order_id = order_id)
                     new_queue == QueueWithout(sd[price], order_id)
                     sd2 == IF new_queue = <<>> THEN DictDel(sd, price)
                            ELSE DictPut(sd, price, new_queue)
                     b2 == SetSideBook(book, side, sd2)
                 IN [book |-> [b2 EXCEPT
                                 !.order_index = DictDel(@, order_id),
                                 !.arrival = SelectSeq(@, LAMBDA i : i # order_id)],
                     removed |-> IF hit = <<>> THEN <<>> ELSE <<hit[Len(hit)]>>]

\* OrderBook._crossable
crossable_strict(book, incoming) ==
    LET bid == best_prices(book)[1]
        ask == best_prices(book)[2]
    IN IF incoming.type = "market"
       THEN IF incoming.side = "buy" THEN ask # Null ELSE bid # Null
       ELSE IF incoming.price = Null THEN FALSE
       ELSE IF incoming.side = "buy"
            THEN ask # Null /\ incoming.price > ask
            ELSE bid # Null /\ incoming.price < bid
crossable(book, incoming) ==
    LET bid == best_prices(book)[1]
        ask == best_prices(book)[2]
    IN IF incoming.type = "market"
       THEN IF incoming.side = "buy" THEN ask # Null ELSE bid # Null
       ELSE IF incoming.price = Null THEN FALSE
       ELSE IF incoming.side = "buy"
            THEN ask # Null /\ incoming.price >= ask
            ELSE bid # Null /\ incoming.price <= bid

\* the level match takes: best = self._best_ask() / self._best_bid()
BestOppositePrice(book, side) ==
    IF side = "buy" THEN SetMin(DOMAIN book.asks) ELSE SetMax(DOMAIN book.bids)

\* maker = best.queue[0]
QueueLast(queue) == Len(queue)
QueueFront(queue) == 1

\* price = best.price
TakerLimitPrice(level_price, incoming) ==
    IF incoming.price = Null THEN level_price ELSE incoming.price
ExecutionPrice(level_price, incoming) == level_price

\* qty = min(incoming.remaining, maker.remaining)
FillQty(incoming, maker) == Min2(incoming.remaining, maker.remaining)

\* "if not best.queue: opp_book.pop(price, None)" after the popleft
KeepLevel(sd, price, queue) == DictPut(sd, price, queue)
LevelAfterFill(sd, price, queue) ==
    IF queue = <<>> THEN DictDel(sd, price) ELSE DictPut(sd, price, queue)

\* maker.remaining -= qty
MakerKeepsRemaining(maker, qty) == maker
MakerAfterFill(maker, qty) == [maker EXCEPT !.remaining = @ - qty]

Executed(book, id) == IF id \in DOMAIN book.executed THEN book.executed[id] ELSE 0

\* The fill of one iteration of the loop of OrderBook.match: the maker at
\* position `at` of the best level's queue trades qty at price with the
\* incoming order.  A fill is the tuple (maker, taker, price, qty) by the ids
\* and the side _record_trades_and_broadcast reads from it; the fields
\* maker_before .. arrival_before record the instant of the fill.
fill(book, incoming, opp_side, level_price, queue, at, price, qty) ==
    LET maker == queue[at]
        opp == get_side_book(book, opp_side)
        taker2 == [incoming EXCEPT !.remaining = @ - qty]
        maker2 == MakerAfterFill(maker, qty)
        gone == maker2.remaining <= 0
        \* best.queue.popleft() removes the head of the queue
        queue2 == IF gone THEN Tail([queue EXCEPT ![at] = maker2])
                  ELSE [queue EXCEPT ![at] = maker2]
        opp2 == IF gone THEN LevelAfterFill(opp, level_price, queue2)
                ELSE DictPut(opp, level_price, queue2)
        b3 == [SetSideBook(book, opp_side, opp2) EXCEPT
                 !.last_trade_price = price,
                 !.order_index = IF gone THEN DictDel(@, maker.order_id) ELSE @,
                 !.arrival = IF gone THEN SelectSeq(@, LAMBDA i : i # maker.order_id)
                             ELSE @,
                 !.executed =
                     DictPut(DictPut(@, maker.order_id, Executed(book, maker.order_id) + qty),
                             incoming.order_id,
                             (IF incoming.order_id = maker.order_id
                              THEN Executed(book, maker.order_id) + qty
                              ELSE Executed(book, incoming.order_id)) + qty)]
    IN [book |-> b3, incoming |-> taker2,
        fill |-> << [maker |-> maker.order_id, taker |-> incoming.order_id,
                     side |-> incoming.side, price |-> price, qty |-> qty,
                     maker_before |-> maker, maker_after |-> maker2,
                     taker_before |-> incoming, taker_after |-> taker2,
                     opp_before |-> opp, arrival_before |-> book.arrival,
                     maker_executed |-> Executed(book, maker.order_id) + qty,
                     taker_executed |->
                         (IF incoming.order_id = maker.order_id
                          THEN Executed(book, maker.order_id) + qty
                          ELSE Executed(book, incoming.order_id)) + qty] >>]

\* One iteration of the loop of OrderBook.match on a crossable book:
\* [book, incoming, fill], fill = <<>> when the iteration only drops an
\* empty level.
match_step(book, incoming) ==
    LET opp_side == Opposite(incoming.side)
        level_price == BestOppositePrice(book, incoming.side)
        queue == get_side_book(book, opp_side)[level_price]
    IN IF queue = <<>>
       THEN [book |-> SetSideBook(book, opp_side,
                                  DictDel(get_side_book(book, opp_side), level_price)),
             incoming |-> incoming, fill |-> <<>>]
       ELSE fill(book, incoming, opp_side, level_price, queue, QueueFront(queue),
                 ExecutionPrice(level_price, incoming),
                 FillQty(incoming, queue[QueueFront(queue)]))

\* OrderBook.match: [book, incoming, trades]
RECURSIVE match_loop(_, _, _)
match_loop(book, incoming, trades) ==
    IF incoming.remaining > 0 /\ crossable(book, incoming)
    THEN LET s == match_step(book, incoming)
         IN match_loop(s.book, s.incoming, trades \o s.fill)
    ELSE [book |-> book, incoming |-> incoming, trades |-> trades]

match(book, incoming) == match_loop(book, incoming, <<>>)

\* -------------------------------------------------------- MatchingEngine
VARIABLES
    books,               \* self.books: symbol -> OrderBook, for the symbols seen
    triggers,            \* self.triggers: symbol -> list of pending orders
    order_symbol_index,  \* self.order_symbol_index: order_id -> symbol
    recent_trades,       \* self.recent_trades: symbol -> deque(maxlen) of Trade
    id_counter,          \* utils._id_counter: the next value next_id returns
    rescans,             \* symbol -> process_triggers tasks created, not yet run
    trigger_loop,        \* api._trigger_loop task: "running" or "dead"
    result,              \* what the last call returned (an observation)
    disk,                \* the committed file state.json: Absent or its data
    restarts,            \* number of process restarts so far
    files,               \* the directory: name -> inode (NoFile if absent)
    inodes,              \* inode -> the cells written to it
    writers,             \* the threads running persistence.save_state._write
    passed,              \* the data of the save_state calls so far
    process,             \* "running", "stopping" or "down"
    loaded,              \* what the last persistence.load_state returned
    ws,                  \* engine.ws: the registries of the WebsocketManager
    sockets,             \* the WebSocket connections (push consumers)
    queues,              \* the asyncio.Queue objects (pull consumers)
    ws_tasks,               \* the broadcast ws_tasks and heartbeat rounds, in creation order
    lk                   \* the locks and the tasks of the event loop, operation by operation

\* the state of one server process and its engine
engine_vars == <<books, triggers, order_symbol_index, recent_trades, id_counter,
                 rescans, trigger_loop, result>>

\* what outlives the process
\* the persist directory seen file by file and write by write
file_vars == <<files, inodes, writers, passed, process, loaded>>

\* the WebsocketManager, its consumers and its ws_tasks
ws_vars == <<ws, sockets, queues, ws_tasks>>

outside_vars == <<disk, restarts, file_vars, ws_vars, lk>>

\* what the steps on the persist directory leave alone
engine_side == <<engine_vars, disk, restarts, ws_vars, lk>>

\* what the steps of the WebsocketManager leave alone
manager_side == <<engine_vars, disk, restarts, file_vars, lk>>

vars == <<engine_vars, outside_vars>>

\* utils.quantize_8 on a value that is a whole number of units
quantize_8(d) == d

\* MatchingEngine._fees, in units of 10^-8: notional * bps / 10000
fees(price, qty) ==
    << price * qty * maker_rebate_bps_x10 * 1000,
       price * qty * taker_fee_bps_x10 * 1000 >>

\* The Trade records _record_trades_and_broadcast builds from the raw
\* fills; next_id("tr") draws the ids from the counter orders share.
AggressorSide(f) == f.side

TradesOfOneId(symbol, raw_trades, counter) ==
    [i \in 1..Len(raw_trades) |->
        LET f == raw_trades[i]
        IN [trade_id |-> counter, symbol |-> symbol,
            price |-> quantize_8(f.price), quantity |-> quantize_8(f.qty),
            aggressor_side |-> AggressorSide(f),
            maker_order_id |-> f.maker, taker_order_id |-> f.taker,
            maker_fee |-> fees(f.price, f.qty)[1],
            taker_fee |-> fees(f.price, f.qty)[2]]]
TradesOf(symbol, raw_trades, counter) ==
    [i \in 1..Len(raw_trades) |->
        LET f == raw_trades[i]
        IN [trade_id |-> counter + i - 1, symbol |-> symbol,
            price |-> quantize_8(f.price), quantity |-> quantize_8(f.qty),
            aggressor_side |-> AggressorSide(f),
            maker_order_id |-> f.maker, taker_order_id |-> f.taker,
            maker_fee |-> fees(f.price, f.qty)[1],
            taker_fee |-> fees(f.price, f.qty)[2]]]

\* deque(maxlen=recent_trades_limit).append, once per trade
RingExtend(ring, trades) ==
    LET all == ring \o trades
    IN IF Len(all) > recent_trades_limit
       THEN SubSeq(all, Len(all) - recent_trades_limit + 1, Len(all))
       ELSE all

RECURSIVE SortedAsc(_)
SortedAsc(S) ==
    IF S = {} THEN <<>> ELSE <<SetMin(S)>> \o SortedAsc(S \ {SetMin(S)})

Reverse(s) == [i \in 1..Len(s) |-> s[Len(s) + 1 - i]]

\* The orders _precheck_fok visits, in the order it visits them: asks from
\* the lowest price up to the cap, bids from the highest down to the cap.
FokWalkNoCap(book, side, price) ==
    LET sd == get_side_book(book, Opposite(side))
        keys == IF side = "buy" THEN SortedAsc(DOMAIN sd)
                ELSE Reverse(SortedAsc(DOMAIN sd))
    IN Concat([i \in 1..Len(keys) |-> sd[keys[i]]])
FokWalk(book, side, price) ==
    LET sd == get_side_book(book, Opposite(side))
        within == {p \in DOMAIN sd :
                     \/ price = Null
                     \/ IF side = "buy" THEN p <= price ELSE p >= price}
        keys == IF side = "buy" THEN SortedAsc(within) ELSE Reverse(SortedAsc(within))
    IN Concat([i \in 1..Len(keys) |-> sd[keys[i]]])

\* MatchingEngine._precheck_fok
precheck_fok(book, side, price, qty) ==
    LET walk == FokWalk(book, side, price)
    IN \E k \in 1..Len(walk) :
          qty - SumSeq([i \in 1..k |-> walk[i].remaining]) <= 0

\* "if order.remaining > 0: if order.type == OrderType.limit" of submit_order
RestsAnyType(order) == order.remaining > 0
Rests(order) == order.remaining > 0 /\ order.type = "limit"

BookOf(symbol) == IF symbol \in DOMAIN books THEN books[symbol] ELSE NewBook

\* what a call handed back: req holds the request body of a submit, the
\* [order_id] of a cancel, the [symbol] of a scan
Outcome(op, req, order, trades, fills, raised, activated) ==
    [op |-> op, req |-> req, order |-> order, trades |-> trades,
     fills |-> fills, raised |-> raised, activated |-> activated]

\* submit_order past the match: m is the result of book.match(order) and
\* trades the Trade records made from it.  The trades are recorded, a limit
\* residual rests (add_limit raises the AssertionError for one without a
\* price), and the order and its trades are returned.
record_and_rest(req, m, trades) ==
    LET symbol == req.symbol
        rests == Rests(m.incoming)
        raises == Rests(m.incoming) /\ m.incoming.price = Null
    IN /\ id_counter' = id_counter + 1 + Len(trades)
       /\ recent_trades' = [recent_trades EXCEPT ![symbol] = RingExtend(@, trades)]
       /\ rescans' = [rescans EXCEPT ![symbol] = IF trades # <<>> THEN @ + 1 ELSE @]
       /\ books' = DictPut(books, symbol,
                           IF rests /\ ~raises THEN add_limit(m.book, m.incoming)
                           ELSE m.book)
       /\ order_symbol_index' =
              IF rests /\ ~raises
              THEN DictPut(order_symbol_index, m.incoming.order_id, symbol)
              ELSE order_symbol_index
       /\ result' = IF raises
                    THEN Outcome("submit_order", <<req>>, <<>>, <<>>, m.trades, TRUE, <<>>)
                    ELSE Outcome("submit_order", <<req>>, <<m.incoming>>, trades,
                                 m.trades, FALSE, <<>>)
       /\ UNCHANGED triggers

\* submit_order once the Order is created: the advanced types go to the
\* triggers, a fok that fails its precheck is returned untouched, every
\* other order is matched.
place(req, book, order) ==
    IF order.type \in TriggerTypes
    THEN /\ books' = DictPut(books, req.symbol, book)
         /\ triggers' = [triggers EXCEPT ![req.symbol] = Append(@, order)]
         /\ order_symbol_index' = DictPut(order_symbol_index, order.order_id, req.symbol)
         /\ id_counter' = id_counter + 1
         /\ result' = Outcome("submit_order", <<req>>, <<order>>, <<>>, <<>>, FALSE, <<>>)
         /\ UNCHANGED <<recent_trades, rescans>>
    ELSE IF order.type = "fok"
            /\ ~precheck_fok(book, order.side, order.price, order.quantity)
    THEN /\ books' = DictPut(books, req.symbol, book)
         /\ id_counter' = id_counter + 1
         /\ result' = Outcome("submit_order", <<req>>, <<order>>, <<>>, <<>>, FALSE, <<>>)
         /\ UNCHANGED <<triggers, order_symbol_index, recent_trades, rescans>>
    ELSE record_and_rest(req, match(book, order),
                         TradesOf(req.symbol, match(book, order).trades, id_counter + 1))

\* MatchingEngine.submit_order(req), from _ensure_book to the return or to
\* the AssertionError add_limit raises for a limit order without a price.
submit_order(req) == place(req, BookOf(req.symbol), NewOrder(req, id_counter))

\* list.pop(i) of the first order with the id, in the triggers of `symbol`
FirstWithId(lst, order_id) ==
    IF \E i \in 1..Len(lst) : lst[i].order_id = order_id
    THEN SetMin({i \in 1..Len(lst) : lst[i].order_id = order_id})
    ELSE 0

RemoveAt(lst, i) == [j \in 1..(Len(lst) - 1) |-> IF j < i THEN lst[j] ELSE lst[j + 1]]

\* MatchingEngine.cancel_order(order_id)
cancel_order(order_id) ==
    IF order_id \notin DOMAIN order_symbol_index
    THEN \* not indexed: could be a trigger order
         IF \E sym \in Symbols : FirstWithId(triggers[sym], order_id) # 0
         THEN LET sym == CHOOSE sm \in Symbols : FirstWithId(triggers[sm], order_id) # 0
                  i == FirstWithId(triggers[sym], order_id)
              IN /\ triggers' = [triggers EXCEPT ![sym] = RemoveAt(@, i)]
                 /\ result' = Outcome("cancel_order", <<[order_id |-> order_id]>>, <<triggers[sym][i]>>,
                                      <<>>, <<>>, FALSE, <<>>)
                 /\ UNCHANGED <<books, order_symbol_index>>
         ELSE /\ result' = Outcome("cancel_order", <<[order_id |-> order_id]>>, <<>>, <<>>, <<>>,
                                   FALSE, <<>>)
              /\ UNCHANGED <<books, triggers, order_symbol_index>>
    ELSE LET symbol == order_symbol_index[order_id]
             r == remove_order(books[symbol], order_id)
         IN /\ books' = [books EXCEPT ![symbol] = r.book]
            /\ order_symbol_index' = IF r.removed # <<>>
                                     THEN DictDel(order_symbol_index, order_id)
                                     ELSE order_symbol_index
            /\ result' = Outcome("cancel_order", <<[order_id |-> order_id]>>, r.removed, <<>>, <<>>,
                                 FALSE, <<>>)
            /\ UNCHANGED triggers

\* One pending order against the observed (last, bid, ask) in the first
\* loop of process_triggers: "activate", "skip", or "raise" for the
\* TypeError of comparing a Decimal with a stop_price that is None.
Verdict(od, last, bid, ask) ==
    LET ge(x, y) == x # Null /\ x >= y
        le(x, y) == x # Null /\ x <= y
        stop_hit == IF od.side = "buy"
                    THEN ge(last, od.stop_price) \/ ge(ask, od.stop_price)
                    ELSE le(last, od.stop_price) \/ le(bid, od.stop_price)
        tp_hit == IF od.side = "sell"
                  THEN ge(last, od.take_profit_price) \/ ge(ask, od.take_profit_price)
                  ELSE le(last, od.take_profit_price) \/ le(bid, od.take_profit_price)
        yes(b) == IF b THEN "activate" ELSE "skip"
    IN CASE od.type = "stop" ->
              IF od.stop_price = Null
              THEN IF last # Null \/ (IF od.side = "buy" THEN ask ELSE bid) # Null
                   THEN "raise" ELSE "skip"
              ELSE yes(stop_hit)
         [] od.type = "stop_limit" ->
              IF od.stop_price = Null \/ od.price = Null THEN "skip" ELSE yes(stop_hit)
         [] od.type = "take_profit" ->
              IF od.take_profit_price = Null THEN "skip" ELSE yes(tp_hit)
         [] OTHER -> "skip"

\* The first loop of process_triggers over list(self.triggers[symbol]):
\* a stop_limit that is selected has its type set to limit on the spot.
RECURSIVE evaluate(_, _, _, _, _, _)
evaluate(trig, i, acts, last, bid, ask) ==
    IF i > Len(trig)
    THEN [triggers |-> trig, to_activate |-> acts, raised |-> FALSE]
    ELSE LET v == Verdict(trig[i], last, bid, ask)
         IN IF v = "raise"
            THEN [triggers |-> trig, to_activate |-> acts, raised |-> TRUE]
            ELSE IF v = "activate"
            THEN LET od == IF trig[i].type = "stop_limit"
                           THEN [trig[i] EXCEPT !.type = "limit"] ELSE trig[i]
                 IN evaluate([trig EXCEPT ![i] = od], i + 1, Append(acts, od),
                             last, bid, ask)
            ELSE evaluate(trig, i + 1, acts, last, bid, ask)

\* list.remove(od): drops the first element equal to od, if any
ListKeep(lst, od) == lst
ListRemove(lst, od) ==
    IF \E i \in 1..Len(lst) : lst[i] = od
    THEN RemoveAt(lst, SetMin({i \in 1..Len(lst) : lst[i] = od}))
    ELSE lst

\* "if od.remaining > 0 and od.type == OrderType.limit and od.price is not None"
RestsActivated(od) == od.remaining > 0 /\ od.type = "limit" /\ od.price # Null

\* MatchingEngine._submit_activated(od) on the running state st of a scan:
\* m is the result of book.match(od) and trades the Trade records made from
\* it; the trades are recorded and a limit residual with a price rests.
\* st = [book, triggers, osi, ring, counter, tasks, fills, trades, activated].
submit_activated(symbol, st, m, trades) ==
    [book |-> IF RestsActivated(m.incoming) THEN add_limit(m.book, m.incoming)
              ELSE m.book,
     triggers |-> st.triggers,
     osi |-> IF RestsActivated(m.incoming)
             THEN DictPut(st.osi, m.incoming.order_id, symbol) ELSE st.osi,
     ring |-> RingExtend(st.ring, trades),
     counter |-> st.counter + Len(trades),
     tasks |-> IF trades # <<>> THEN st.tasks + 1 ELSE st.tasks,
     fills |-> st.fills \o m.trades,
     trades |-> st.trades \o trades,
     activated |-> Append(st.activated, m.incoming)]

\* One selected order in the second loop of process_triggers: it leaves the
\* triggers list, a stop without price becomes a market order, and
\* _submit_activated takes it.
activate_oneNewId(symbol, st, od0, od) ==
    submit_activated(symbol, [st EXCEPT !.triggers = ListRemove(@, od0)],
                     match(st.book, [od EXCEPT !.order_id = st.counter]),
                     TradesOf(symbol,
                              match(st.book, [od EXCEPT !.order_id = st.counter]).trades,
                              st.counter + 1))
activate_one(symbol, st, od0, od) ==
    submit_activated(symbol, [st EXCEPT !.triggers = ListRemove(@, od0)],
                     match(st.book, od),
                     TradesOf(symbol, match(st.book, od).trades, st.counter))

\* The second loop of process_triggers
RECURSIVE activate(_, _, _)
activate(symbol, acts, st) ==
    IF acts = <<>> THEN st
    ELSE activate(symbol, Tail(acts),
                  activate_one(symbol, st, Head(acts),
                               IF Head(acts).type = "stop" /\ Head(acts).price = Null
                               THEN [Head(acts) EXCEPT !.type = "market"]
                               ELSE Head(acts)))

\* The end of process_triggers: ev is the outcome of the first loop and st
\* the state the second loop leaves.
scan_done(symbol, ev, st) ==
    /\ books' = [books EXCEPT ![symbol] = st.book]
    /\ triggers' = [triggers EXCEPT ![symbol] = st.triggers]
    /\ order_symbol_index' = st.osi
    /\ recent_trades' = [recent_trades EXCEPT ![symbol] = st.ring]
    /\ id_counter' = st.counter
    /\ rescans' = [rescans EXCEPT ![symbol] = st.tasks]
    /\ result' = Outcome("process_triggers", <<[symbol |-> symbol]>>, <<>>, st.trades, st.fills,
                         ev.raised, st.activated)

\* The second loop of process_triggers on the outcome ev of the first; a
\* raise in the first loop ends the call before any activation.
scan_activate(symbol, tasks, ev) ==
    scan_done(symbol, ev,
              activate(symbol, IF ev.raised THEN <<>> ELSE ev.to_activate,
                       [book |-> books[symbol], triggers |-> ev.triggers,
                        osi |-> order_symbol_index, ring |-> recent_trades[symbol],
                        counter |-> id_counter, tasks |-> tasks,
                        fills |-> <<>>, trades |-> <<>>, activated |-> <<>>]))

\* MatchingEngine.process_triggers(symbol) for a symbol that has a book;
\* `tasks` is the number of process_triggers tasks left scheduled when it
\* starts.
process_triggers(symbol, tasks) ==
    scan_activate(symbol, tasks,
                  evaluate(triggers[symbol], 1, <<>>, books[symbol].last_trade_price,
                           best_prices(books[symbol])[1], best_prices(books[symbol])[2]))

\* ---------------------------------------------------------------- queries
\* MatchingEngine.get_trades
get_trades(symbol) == IF symbol \in DOMAIN recent_trades THEN recent_trades[symbol] ELSE <<>>

\* the loop of get_trades_since over the ring: a trade is kept once an
\* earlier one carried the id
RECURSIVE FilterAfterInclusive(_, _, _, _)
FilterAfterInclusive(trades, last_trade_id, seen, filtered) ==
    IF trades = <<>> THEN [seen |-> seen, filtered |-> filtered]
    ELSE IF seen \/ Head(trades).trade_id = last_trade_id
         THEN FilterAfterInclusive(Tail(trades), last_trade_id, TRUE,
                                   Append(filtered, Head(trades)))
         ELSE FilterAfterInclusive(Tail(trades), last_trade_id, FALSE, filtered)
RECURSIVE FilterAfter(_, _, _, _)
FilterAfter(trades, last_trade_id, seen, filtered) ==
    IF trades = <<>> THEN [seen |-> seen, filtered |-> filtered]
    ELSE IF seen
         THEN FilterAfter(Tail(trades), last_trade_id, TRUE,
                          Append(filtered, Head(trades)))
         ELSE FilterAfter(Tail(trades), last_trade_id,
                          Head(trades).trade_id = last_trade_id, filtered)

\* MatchingEngine.get_trades_since: the pair (trades, latest_id)
get_trades_since(symbol, last_trade_id) ==
    [trades |-> IF last_trade_id = Null THEN get_trades(symbol)
                ELSE IF FilterAfter(get_trades(symbol), last_trade_id, FALSE, <<>>).seen
                     THEN FilterAfter(get_trades(symbol), last_trade_id, FALSE, <<>>).filtered
                     ELSE get_trades(symbol),
     latest_id |-> IF get_trades(symbol) # <<>>
                   THEN get_trades(symbol)[Len(get_trades(symbol))].trade_id
                   ELSE Null]

\* ------------------------------------------------------------ persistence
\* Values of the JSON document and of the dict json.dump receives: null, a
\* string holding the digits of a decimal, or a Decimal object.
JsonNull == [kind |-> "null", dec |-> 0]
JsonStr(d) == [kind |-> "str", dec |-> d]
PyDecimal(d) == [kind |-> "Decimal", dec |-> d]

\* "str(x) if x is not None else None" and "str(x) if x else None" of
\* save_state: the second drops a Decimal that is zero as well
StrIfNotNone(d) == IF d # Null THEN JsonStr(d) ELSE JsonNull
StrIfTruthy(d) == IF d # Null /\ d # 0 THEN JsonStr(d) ELSE JsonNull

\* utils.as_decimal
as_decimal(v) == IF v.kind = "null" THEN 0 ELSE v.dec

\* "as_decimal(od[k]) if od.get(k) else None" of load_state: a string is
\* truthy unless empty, and the digits of a decimal are never empty
DecimalIfTruthy(v) == IF v.kind = "null" THEN Null ELSE as_decimal(v)

\* the dict save_state writes for one resting order
OrderDict(o) ==
    [order_id |-> o.order_id, side |-> o.side, type |-> o.type,
     quantity |-> JsonStr(o.quantity), remaining |-> JsonStr(o.remaining),
     price |-> StrIfNotNone(o.price), stop_price |-> StrIfTruthy(o.stop_price),
     take_profit_price |-> StrIfTruthy(o.take_profit_price)]

\* asdict(t) of a Trade: the Decimal fields stay Decimal objects
TradeDict(t) ==
    [trade_id |-> t.trade_id, price |-> PyDecimal(t.price),
     quantity |-> PyDecimal(t.quantity), aggressor_side |-> t.aggressor_side,
     maker_order_id |-> t.maker_order_id, taker_order_id |-> t.taker_order_id,
     maker_fee |-> PyDecimal(t.maker_fee), taker_fee |-> PyDecimal(t.taker_fee)]

\* the orders of one side in the order save_state visits them: the levels
\* by ascending price, each queue from its head
SideDump(sd) ==
    Concat([i \in 1..Len(SortedAsc(DOMAIN sd)) |-> sd[SortedAsc(DOMAIN sd)[i]]])

\* open_orders[sym] of save_state: bids, then asks
OpenOrders(book) ==
    [i \in 1..Len(SideDump(book.bids) \o SideDump(book.asks)) |->
        OrderDict((SideDump(book.bids) \o SideDump(book.asks))[i])]

\* the data MatchingEngine.save_state hands to persistence.save_state
SaveData ==
    [open_orders |-> [sym \in DOMAIN books |-> OpenOrders(books[sym])],
     recent_trades |-> [sym \in Symbols |->
                          [i \in 1..Len(recent_trades[sym]) |->
                              TradeDict(recent_trades[sym][i])]]]

\* json.dump raises TypeError on a Decimal object
Serializable(data) ==
    \A sym \in DOMAIN data.recent_trades :
       \A i \in 1..Len(data.recent_trades[sym]) :
          LET tr == data.recent_trades[sym][i]
          IN {tr.price.kind, tr.quantity.kind, tr.maker_fee.kind, tr.taker_fee.kind}
               \cap {"Decimal"} = {}

\* persistence.save_state run alone: the file written under the tmp name
\* replaces state.json, unless json.dump raises and state.json stays
Committed(data) == IF Serializable(data) THEN data ELSE disk

\* the state.json of a directory that holds none, as persistence.load_state
\* returns it
Absent == [open_orders |-> EmptyDict, recent_trades |-> EmptyDict]

\* the Order load_state builds from a saved dict
LoadedOrder(sym, od) ==
    [order_id |-> od.order_id, symbol |-> sym, side |-> od.side, type |-> od.type,
     quantity |-> as_decimal(od.quantity), remaining |-> as_decimal(od.remaining),
     price |-> DecimalIfTruthy(od.price),
     stop_price |-> DecimalIfTruthy(od.stop_price),
     take_profit_price |-> DecimalIfTruthy(od.take_profit_price)]

\* the Trade load_state builds from a saved dict
LoadedTrade(sym, tr) ==
    [trade_id |-> tr.trade_id, symbol |-> sym, price |-> as_decimal(tr.price),
     quantity |-> as_decimal(tr.quantity), aggressor_side |-> tr.aggressor_side,
     maker_order_id |-> tr.maker_order_id, taker_order_id |-> tr.taker_order_id,
     maker_fee |-> as_decimal(tr.maker_fee), taker_fee |-> as_decimal(tr.taker_fee)]

\* "Only limit orders can rest" / "Re-add to triggers if advanced"
LoadRests(order) == order.type = "limit" /\ order.remaining > 0 /\ order.price # Null
LoadPends(order) == ~LoadRests(order) /\ order.type \in TriggerTypes

\* the loop of load_state over the saved orders of one symbol, from the
\* fresh book: st = [book, triggers, osi]
RECURSIVE load_orders(_, _, _)
load_orders(sym, ods, st) ==
    IF ods = <<>> THEN st
    ELSE load_orders(sym, Tail(ods),
           [book |-> IF LoadRests(LoadedOrder(sym, Head(ods)))
                     THEN add_limit(st.book, LoadedOrder(sym, Head(ods)))
                     ELSE st.book,
            triggers |-> IF LoadPends(LoadedOrder(sym, Head(ods)))
                         THEN Append(st.triggers, LoadedOrder(sym, Head(ods)))
                         ELSE st.triggers,
            osi |-> IF LoadRests(LoadedOrder(sym, Head(ods)))
                    THEN st.osi \cup {Head(ods).order_id} ELSE st.osi])

\* what load_state makes of the saved orders of one symbol
LoadedSymbol(data, sym) ==
    load_orders(sym, IF sym \in DOMAIN data.open_orders
                     THEN data.open_orders[sym] ELSE <<>>,
                [book |-> NewBook, triggers |-> <<>>, osi |-> {}])

\* MatchingEngine.load_state on the engine of a new process
load_state(data) ==
    /\ books' = [sym \in DOMAIN data.open_orders |-> LoadedSymbol(data, sym).book]
    /\ triggers' = [sym \in Symbols |-> LoadedSymbol(data, sym).triggers]
    /\ order_symbol_index' =
          [id \in UNION {LoadedSymbol(data, sym).osi : sym \in DOMAIN data.open_orders}
             |-> CHOOSE sym \in DOMAIN data.open_orders :
                    id \in LoadedSymbol(data, sym).osi]
    /\ recent_trades' =
          [sym \in Symbols |->
              IF sym \in DOMAIN data.recent_trades
              THEN RingExtend(<<>>, [i \in 1..Len(data.recent_trades[sym]) |->
                                       LoadedTrade(sym, data.recent_trades[sym][i])])
              ELSE <<>>]

\* --------------------------------------------------- the persist directory
\* persistence.save_state seen write by write.  The data of a save_state
\* call is a label in Snapshots; json.dump writes it as Chunks cells, each
\* carrying the label, so a complete snapshot d is Chunks cells of d.
Snapshots == 1..MaxSnapshots
Writers == {"periodic", "shutdown"}
InodeIds == 1..(Cardinality(Writers) + 2)
NoFile == 0
Hole == 0
NoWriter == [pc |-> "idle", data |-> 0, fd |-> NoFile, pos |-> 0]
NotLoaded == [kind |-> "none", content |-> <<>>]
Complete(d) == [i \in 1..Chunks |-> d]

\* an inode lives while a name or an open file refers to it
Referenced(fs, wr) == {fs.tmp, fs.state} \cup {wr[w].fd : w \in Writers}
FreeInode == CHOOSE i \in InodeIds : i \notin Referenced(files, writers)
Reclaim(ino, fs, wr) ==
    [i \in InodeIds |-> IF i \in Referenced(fs, wr) THEN ino[i] ELSE <<>>]

\* write(2) of one cell at the offset of the open file
WriteAt(content, pos, d) ==
    [i \in 1..(IF Len(content) > pos + 1 THEN Len(content) ELSE pos + 1) |->
        IF i = pos + 1 THEN d
        ELSE IF i <= Len(content) THEN content[i] ELSE Hole]

\* save_state is called with data d and its thread runs open(tmp, "w"):
\* the file under the tmp name is truncated, or created if there is none.
\* The periodic saver calls while the server runs; _shutdown calls once.
OpenTmp(w, d) ==
    /\ writers[w].pc = "idle"
    /\ Len(passed) < MaxSaves
    /\ process = "running"
    /\ passed' = Append(passed, d)
    /\ process' = IF w = "shutdown" THEN "stopping" ELSE process
    /\ files' = IF files.tmp = NoFile THEN [files EXCEPT !.tmp = FreeInode] ELSE files
    /\ inodes' = [inodes EXCEPT ![files'.tmp] = <<>>]
    /\ writers' = [writers EXCEPT ![w] =
                      [pc |-> "open", data |-> d, fd |-> files'.tmp, pos |-> 0]]
    /\ UNCHANGED <<loaded, engine_side>>

\* json.dump hands the next piece to the file
WriteChunk(w) ==
    /\ writers[w].pc = "open"
    /\ writers[w].pos < Chunks
    /\ inodes' = [inodes EXCEPT ![writers[w].fd] =
                     WriteAt(@, writers[w].pos, writers[w].data)]
    /\ writers' = [writers EXCEPT ![w].pos = @ + 1]
    /\ UNCHANGED <<files, passed, process, loaded, engine_side>>

\* json.dump raises: the with block closes the file and _write ends
\* before os.replace
FailWrite(w) ==
    /\ writers[w].pc = "open"
    /\ writers[w].pos < Chunks
    /\ writers' = [writers EXCEPT ![w] = NoWriter]
    /\ inodes' = Reclaim(inodes, files, writers')
    /\ UNCHANGED <<files, passed, process, loaded, engine_side>>

\* the file is closed and os.replace(tmp, file_path) runs; it raises
\* FileNotFoundError when the tmp name is gone
Replace(w) ==
    /\ writers[w].pc = "open"
    /\ writers[w].pos = Chunks
    /\ writers' = [writers EXCEPT ![w] = NoWriter]
    /\ files' = IF files.tmp = NoFile THEN files
                ELSE [tmp |-> NoFile, state |-> files.tmp]
    /\ inodes' = Reclaim(inodes, files', writers')
    /\ UNCHANGED <<passed, process, loaded, engine_side>>

\* the process ends with its threads: killed at any step, or at the end
\* of a shutdown
Crash ==
    /\ process \in {"running", "stopping"}
    /\ process' = "down"
    /\ writers' = [w \in Writers |-> NoWriter]
    /\ inodes' = Reclaim(inodes, files, writers')
    /\ UNCHANGED <<files, passed, loaded, engine_side>>

\* _startup of a new process: persistence.load_state reads state.json, or
\* returns the empty state when there is no such name
Load ==
    /\ process = "down"
    /\ process' = "running"
    /\ loaded' = IF files.state = NoFile THEN [kind |-> "absent", content |-> <<>>]
                 ELSE [kind |-> "file", content |-> inodes[files.state]]
    /\ UNCHANGED <<files, inodes, writers, passed, engine_side>>

NextFile ==
    \/ \E w \in Writers, d \in Snapshots : OpenTmp(w, d)
    \/ \E w \in Writers : WriteChunk(w)
    \/ \E w \in Writers : FailWrite(w)
    \/ \E w \in Writers : Replace(w)
    \/ Crash
    \/ Load

\* ------------------------------------------------------ WebsocketManager
\* The two channels of the manager; a message of a channel is the number
\* of its broadcast in the order the engine scheduled them, HeartbeatFrame
\* is the heartbeat message.
Channels == {"marketdata", "trades"}
PushIds == 1..MaxPush
PullIds == 1..MaxPull
HeartbeatFrame == 0

\* WebsocketManager.__init__
NewManager ==
    [marketdata_clients |-> {}, trade_clients |-> {},
     marketdata_streams |-> <<>>, trade_streams |-> <<>>]

\* a connection not yet accepted, with the frames its peer was sent
NewSocket == [state |-> "new", inbox |-> <<>>]

\* asyncio.Queue(): log is every message put so far, the first `taken` of
\* them were taken by the consumer; maxsize 0 means no limit
NewQueue == [state |-> "new", log |-> <<>>, taken |-> 0]
Held(queue) == Len(queue.log) - queue.taken
PutRejected(queue) == QueueMaxsize > 0 /\ Held(queue) >= QueueMaxsize

Clients(m, ch) == IF ch = "marketdata" THEN m.marketdata_clients ELSE m.trade_clients
Streams(m, ch) == IF ch = "marketdata" THEN m.marketdata_streams ELSE m.trade_streams
WithClients(m, ch, clients) ==
    IF ch = "marketdata" THEN [m EXCEPT !.marketdata_clients = clients]
    ELSE [m EXCEPT !.trade_clients = clients]
WithStreams(m, ch, streams) ==
    IF ch = "marketdata" THEN [m EXCEPT !.marketdata_streams = streams]
    ELSE [m EXCEPT !.trade_streams = streams]

\* list.remove(queue) and pools.append(queue)
RECURSIVE ListWithout(_, _)
ListWithout(lst, x) ==
    IF lst = <<>> THEN <<>>
    ELSE IF Head(lst) = x THEN Tail(lst) ELSE <<Head(lst)>> \o ListWithout(Tail(lst), x)

\* ws.send_text / ws.send_json: the frame reaches the peer of an open
\* connection, the call raises on any other
SendRaises(socks, w) == socks[w].state # "open"
SendTo(socks, w, msg) ==
    IF SendRaises(socks, w) THEN socks
    ELSE [socks EXCEPT ![w].inbox = Append(@, msg)]

\* _fanout_streams(pools, message) on one pool: put_nowait on every queue
\* of the pool, and the queues that rejected the put leave the pool.  No
\* coroutine holds _lock across an await, so the call never waits.
FanoutQueues(qs, pool, msg) ==
    [q \in PullIds |->
        IF (\E i \in 1..Len(pool) : pool[i] = q) /\ ~PutRejected(qs[q])
        THEN [qs[q] EXCEPT !.log = Append(@, msg)] ELSE qs[q]]
RECURSIVE FanoutPool(_, _)
FanoutPool(qs, pool) ==
    IF pool = <<>> THEN <<>>
    ELSE (IF PutRejected(qs[Head(pool)]) THEN <<>> ELSE <<Head(pool)>>)
           \o FanoutPool(qs, Tail(pool))

\* the _fanout_streams calls that end a broadcast (one pool) or a
\* heartbeat round (both pools), as [m, qs]
RECURSIVE FanoutAll(_, _, _, _)
FanoutAll(chs, m, qs, msg) ==
    IF chs = <<>> THEN [m |-> m, qs |-> qs]
    ELSE FanoutAll(Tail(chs),
                   WithStreams(m, Head(chs), FanoutPool(qs, Streams(m, Head(chs)))),
                   FanoutQueues(qs, Streams(m, Head(chs)), msg), msg)

\* A broadcast_marketdata / broadcast_trades task, or one round of the
\* heartbeat loop.  loops are the channels whose push clients are still
\* to be sent to, channel the one of the running loop, todo the rest of
\* the list(clients) it iterates and dead the clients whose send raised;
\* fanout lists the pools served at the end.  While the task runs, snap
\* records the clients its loops iterated and tick_push, tick_pull the
\* consumers registered when it started.
NewTask(kind, loops, msg) ==
    [kind |-> kind, msg |-> msg, loops |-> loops, fanout |-> loops,
     channel |-> "none", pc |-> "ready", todo |-> {}, dead |-> {},
     snap |-> {}, tick_push |-> {}, tick_pull |-> {}]

\* the loop `for ws in list(clients): try: await ws.send... except: dead.append(ws)`
\* after the send to w
AfterSendAbort(tk, w, raised) ==
    [tk EXCEPT !.pc = "sending", !.todo = IF raised THEN {} ELSE @ \ {w},
               !.dead = IF raised THEN @ \cup {w} ELSE @]
AfterSend(tk, w, raised) ==
    [tk EXCEPT !.pc = "sending", !.todo = @ \ {w},
               !.dead = IF raised THEN @ \cup {w} ELSE @]

\* `for ws in dead: await self.unregister_...(ws)`
Unregistered(m, tk) ==
    IF tk.channel \in Channels
    THEN WithClients(m, tk.channel, Clients(m, tk.channel) \ tk.dead) ELSE m

\* the loops that remain once those over an empty client set are passed
RECURSIVE SkipEmpty(_, _)
SkipEmpty(loops, m) ==
    IF loops = <<>> THEN <<>>
    ELSE IF Clients(m, Head(loops)) = {} THEN SkipEmpty(Tail(loops), m) ELSE loops

\* heartbeat: `if not self.marketdata_clients and not self.trade_clients: continue`
HeartbeatSkips(tk, m) ==
    /\ tk.kind = "heartbeat" /\ tk.pc = "ready"
    /\ m.marketdata_clients = {} /\ m.trade_clients = {}

AllPush(m) == m.marketdata_clients \cup m.trade_clients
AllPull(m) ==
    {m.marketdata_streams[i] : i \in 1..Len(m.marketdata_streams)}
      \cup {m.trade_streams[i] : i \in 1..Len(m.trade_streams)}

\* the task as it starts running: a heartbeat round notes who is registered
Started(tk, m) ==
    IF tk.pc = "ready"
    THEN [tk EXCEPT !.tick_push = AllPush(m), !.tick_pull = AllPull(m)]
    ELSE tk

AllPullOf(m, chs) ==
    UNION {{Streams(m, chs[k])[i] : i \in 1..Len(Streams(m, chs[k]))} : k \in 1..Len(chs)}

\* the task ended
Ended(tk) ==
    [NewTask(tk.kind, tk.fanout, tk.msg) EXCEPT !.pc = "done", !.loops = <<>>]

\* task i runs from its start, or from the end of a loop over push
\* clients, up to its next await of a send or to its end.  m is the
\* manager after the dead clients of the loop that ended were
\* unregistered, rest the loops from the next non-empty one.
proceed(i, tk, m, rest) ==
    IF rest = <<>> \/ HeartbeatSkips(tk, m)
    THEN /\ ws' = IF HeartbeatSkips(tk, m) THEN m
                  ELSE FanoutAll(tk.fanout, m, queues, tk.msg).m
         /\ queues' = IF HeartbeatSkips(tk, m) THEN queues
                      ELSE FanoutAll(tk.fanout, m, queues, tk.msg).qs
         /\ ws_tasks' = [ws_tasks EXCEPT ![i] = Ended(tk)]
         /\ UNCHANGED sockets
    ELSE \E w \in Clients(m, Head(rest)) :
            /\ ws' = m
            /\ sockets' = SendTo(sockets, w, tk.msg)
            /\ ws_tasks' = [ws_tasks EXCEPT ![i] =
                            AfterSend([tk EXCEPT !.channel = Head(rest),
                                                 !.loops = Tail(rest),
                                                 !.todo = Clients(m, Head(rest)),
                                                 !.snap = @ \cup Clients(m, Head(rest)),
                                                 !.dead = {}],
                                      w, SendRaises(sockets, w))]
            /\ UNCHANGED queues

\* the event loop runs the ws_tasks it was handed in the order it got them
FirstReady(i) == \A j \in 1..(i - 1) : ws_tasks[j].pc # "ready"

\* ------------------------------------------------------ locks and tasks
\* The coroutines of the engine as the event loop runs them: a task runs
\* from one suspension point to the next, and the others wait meanwhile.
\* A task is the list of the operations it has still to do.
LockSymbols == Symbols \cup {"ETH-USD"}
NoTask == 0

\* submit_order: async with self.locks[symbol] around the match, the
\* recording of the trades and the create_task calls of the broadcasts
SubmitOpsSendsInside == <<"acquire", "match", "send", "release">>
SubmitOps == <<"acquire", "match", "create_task", "release">>

\* cancel_order of a resting order: async with self.locks[symbol] around
\* remove_order and the create_task of the market-data broadcast
CancelOps == <<"acquire", "remove_order", "create_task", "release">>

\* process_triggers with one order to activate: the scan reads the book
\* outside the lock, _submit_activated matches inside it
ActivationOps == <<"scan", "acquire", "match", "create_task", "release">>

\* broadcast_marketdata / broadcast_trades: the send to a push client, the
\* unregister of a dead one and _fanout_streams, both under self._lock
BroadcastOps ==
    <<"send", "mutex_acquire", "discard", "mutex_release",
      "mutex_acquire", "copy", "mutex_release", "put_nowait">>

\* save_state: the data is collected from the books without a lock, then
\* persistence.save_state writes it in a thread
SaveOps == <<"collect", "io">>

\* the operations at which a task is suspended once it has started them
Suspends == {"send", "io"}

OpsOf(kind) ==
    CASE kind = "submit" -> SubmitOps
      [] kind = "cancel" -> CancelOps
      [] kind = "activation" -> ActivationOps
      [] kind = "save" -> SaveOps
      [] OTHER -> BroadcastOps

\* the tasks a request or a timer starts
Entered == {"submit", "cancel", "activation", "save"}

LockTask(kind, symbol) == [kind |-> kind, symbol |-> symbol, todo |-> OpsOf(kind)]

\* MatchingEngine.__init__ and WebsocketManager.__init__: every lock free
NewLoop ==
    [running |-> NoTask, locks |-> [s \in LockSymbols |-> NoTask],
     mutex |-> NoTask, tasks |-> <<>>]

\* the symbol locks task t holds
HeldBy(l, t) == {s \in LockSymbols : l.locks[s] = t}

\* the next operation of task t, "none" when it has ended
NextOp(l, t) == IF l.tasks[t].todo = <<>> THEN "none" ELSE Head(l.tasks[t].todo)

\* task t asks for a lock another task holds
WaitsForSymbol(l, t) ==
    NextOp(l, t) = "acquire" /\ l.locks[l.tasks[t].symbol] \notin {NoTask, t}
WaitsForMutex(l, t) ==
    NextOp(l, t) = "mutex_acquire" /\ l.mutex \notin {NoTask, t}

\* the event loop can give task t its turn
CanRun(l, t) ==
    /\ t \in 1..Len(l.tasks)
    /\ NextOp(l, t) # "none"
    /\ l.running \in {NoTask, t}
    /\ (l.running = NoTask => ~WaitsForSymbol(l, t) /\ ~WaitsForMutex(l, t))

\* task t has done its next operation: it keeps running unless it ended
\* or the operation suspends it
Advanced(l, t) ==
    [l EXCEPT !.tasks[t].todo = Tail(@),
              !.running = IF Len(l.tasks[t].todo) = 1 \/ NextOp(l, t) \in Suspends
                          THEN NoTask ELSE t]

\* asyncio.create_task inside the critical section: the broadcast is only
\* scheduled
Created(l, t) ==
    IF Len(l.tasks) < MaxLockTasks
    THEN [l EXCEPT !.tasks = Append(@, LockTask("broadcast", l.tasks[t].symbol))]
    ELSE l

\* the next operation of task t on the loop l
Operated(l, t) ==
    CASE NextOp(l, t) = "acquire" ->
            IF l.locks[l.tasks[t].symbol] = NoTask
            THEN Advanced([l EXCEPT !.locks[l.tasks[t].symbol] = t], t)
            ELSE [l EXCEPT !.running = NoTask]
      [] NextOp(l, t) = "release" ->
            Advanced([l EXCEPT !.locks[l.tasks[t].symbol] = NoTask], t)
      [] NextOp(l, t) = "mutex_acquire" ->
            IF l.mutex = NoTask
            THEN Advanced([l EXCEPT !.mutex = t], t)
            ELSE [l EXCEPT !.running = NoTask]
      [] NextOp(l, t) = "mutex_release" ->
            Advanced([l EXCEPT !.mutex = NoTask], t)
      [] NextOp(l, t) = "create_task" -> Advanced(Created(l, t), t)
      [] OTHER -> Advanced(l, t)

\* ---------------------------------------------------------------- actions
NoOutcome == Outcome("none", <<>>, <<>>, <<>>, <<>>, FALSE, <<>>)

Init ==
    /\ books = EmptyDict
    /\ triggers = [s \in Symbols |-> <<>>]
    /\ order_symbol_index = EmptyDict
    /\ recent_trades = [s \in Symbols |-> <<>>]
    /\ id_counter = 1
    /\ rescans = [s \in Symbols |-> 0]
    /\ trigger_loop = "running"
    /\ result = NoOutcome
    /\ disk = Absent
    /\ restarts = 0
    /\ files = [tmp |-> NoFile, state |-> NoFile]
    /\ inodes = [i \in InodeIds |-> <<>>]
    /\ writers = [w \in Writers |-> NoWriter]
    /\ passed = <<>>
    /\ process = "running"
    /\ loaded = NotLoaded
    /\ ws = NewManager
    /\ sockets = [w \in PushIds |-> NewSocket]
    /\ queues = [q \in PullIds |-> NewQueue]
    /\ ws_tasks = <<>>
    /\ lk = NewLoop

\* The calls below run one at a time on the event loop, each to its end;
\* `result` holds the outcome of the call that just ended until Return
\* hands it to the caller.
Idle == result.op = "none"

\* POST /orders, while the id counter of the process is at most max
SubmitUpTo(max) ==
    /\ Idle
    /\ id_counter <= max
    /\ \E req \in OrderRequest :
        /\ (req.type \in TriggerTypes => Len(triggers[req.symbol]) < MaxTriggers)
        /\ submit_order(req)
        /\ UNCHANGED <<trigger_loop, outside_vars>>

Submit == SubmitUpTo(MaxId)

\* DELETE /orders/{order_id}
Cancel ==
    /\ Idle
    /\ \E order_id \in 1..MaxId :
        /\ cancel_order(order_id)
        /\ UNCHANGED <<recent_trades, id_counter, rescans, trigger_loop, outside_vars>>

\* A process_triggers task that _record_trades_and_broadcast created runs;
\* an exception ends the task only.
Rescan ==
    /\ Idle
    /\ \E symbol \in Symbols :
        /\ rescans[symbol] > 0
        /\ process_triggers(symbol, rescans[symbol] - 1)
        /\ UNCHANGED <<trigger_loop, outside_vars>>

\* One round of api._trigger_loop over engine.books (here one symbol); an
\* exception of process_triggers ends the loop task.
TriggerLoop ==
    /\ Idle
    /\ trigger_loop = "running"
    /\ \E symbol \in DOMAIN books :
        /\ process_triggers(symbol, rescans[symbol])
        /\ trigger_loop' = IF result'.raised THEN "dead" ELSE "running"
        /\ UNCHANGED outside_vars

\* The call that ended hands its outcome to its caller.
Return ==
    /\ ~Idle
    /\ result' = NoOutcome
    /\ UNCHANGED <<books, triggers, order_symbol_index, recent_trades, id_counter,
                   rescans, trigger_loop, outside_vars>>

Next == Submit \/ Cancel \/ Rescan \/ TriggerLoop \/ Return

Spec == Init /\ [][Next]_vars

\* what the steps of the tasks leave alone
loop_side == <<engine_vars, disk, restarts, file_vars, ws_vars>>

\* a request arrives, a rescan is due or the saver wakes: a task is made
Enter(kind, symbol) ==
    /\ Len(lk.tasks) < MaxLockTasks
    /\ lk' = [lk EXCEPT !.tasks = Append(@, LockTask(kind, symbol))]
    /\ UNCHANGED loop_side

\* the event loop runs the next operation of task t
Operate(t) ==
    /\ CanRun(lk, t)
    /\ lk' = Operated(lk, t)
    /\ UNCHANGED loop_side

NextLock ==
    \/ \E kind \in Entered, symbol \in LockSymbols : Enter(kind, symbol)
    \/ \E t \in 1..MaxLockTasks : Operate(t)

\* the event loop gives every task that can run its turn
LockSpec ==
    /\ Init /\ [][NextLock]_vars
    /\ \A t \in 1..MaxLockTasks : WF_lk(Operate(t))

\* the requests of the runs whose scheduling is fair: limit, stop and
\* stop_limit orders of quantity 1, at most MaxPending of them pending
LiveRequest ==
    {r \in OrderRequest : r.type \in {"limit", "stop", "stop_limit"} /\ r.quantity = 1}

\* POST /orders with such a request
SubmitLive ==
    /\ Idle
    /\ id_counter <= MaxId
    /\ \E req \in LiveRequest :
        /\ (req.type \in TriggerTypes => Len(triggers[req.symbol]) < MaxPending)
        /\ submit_order(req)
        /\ UNCHANGED <<trigger_loop, outside_vars>>

NextLive == SubmitLive \/ Cancel \/ Rescan \/ TriggerLoop \/ Return

\* Every call changes the operation named in `result`.
called == result.op

\* a process_triggers task that _record_trades_and_broadcast created is
\* scheduled and can take its turn: ENABLED <<Rescan>>_called
RescanReady == Idle /\ \E symbol \in Symbols : rescans[symbol] > 0

\* the periodic loop lives and can take its turn over a book:
\* ENABLED <<TriggerLoop>>_called
TriggerLoopReady == Idle /\ trigger_loop = "running" /\ DOMAIN books # {}

\* The engine under the scheduling of the event loop: a call that ended
\* returns (weak fairness), and a task that is ready again and again gets
\* its turn: the rescan tasks, and the periodic loop that wakes every 0.5 s
\* while it lives.  The last two are strong fairness of Rescan and of
\* TriggerLoop, written out with the enabling conditions above.
FairSpec ==
    /\ Init /\ [][NextLive]_vars
    /\ WF_called(Return)
    /\ (<>[](~RescanReady)) \/ ([]<><<Rescan>>_called)
    /\ (<>[](~TriggerLoopReady)) \/ ([]<><<TriggerLoop>>_called)

\* One round of save_state_periodic: save_state builds the data from the
\* engine and persistence.save_state writes it; an exception is logged.
Save ==
    /\ Idle
    /\ disk' = Committed(SaveData)
    /\ UNCHANGED <<engine_vars, restarts, file_vars, ws_vars, lk>>

\* The server stops and a new process starts.  _shutdown runs save_state
\* when the stop is graceful; _startup of the new process runs load_state
\* on a new engine and starts the trigger loop; utils._id_counter of the
\* new process starts at 1 and no process_triggers task is left.
Restart ==
    /\ Idle
    /\ restarts < MaxRestarts
    /\ \E graceful \in BOOLEAN :
        /\ disk' = IF graceful THEN Committed(SaveData) ELSE disk
        /\ load_state(disk')
        /\ result' = Outcome(IF graceful THEN "restart" ELSE "crash_restart",
                             <<>>, <<>>, <<>>, <<>>,
                             graceful /\ ~Serializable(SaveData), <<>>)
    /\ id_counter' = 1
    /\ rescans' = [s \in Symbols |-> 0]
    /\ trigger_loop' = "running"
    /\ restarts' = restarts + 1
    /\ UNCHANGED <<file_vars, ws_vars, lk>>

\* the ids the running process may mint
IdsOfProcess == IF restarts = 0 THEN MaxIdRestart ELSE MaxIdRestarted

NextRestart ==
    \/ SubmitUpTo(IdsOfProcess) \/ Cancel \/ Rescan \/ TriggerLoop \/ Return
    \/ Save \/ Restart

RestartSpec == Init /\ [][NextRestart]_vars

\* GET /poll/{symbol}?since=...: the trades and latest_trade_id of the
\* answer; `order` carries latest_trade_id
Poll ==
    /\ Idle
    /\ \E symbol \in Symbols, since \in SinceIds :
          result' = Outcome("get_trades_since", <<symbol, since>>,
                            <<get_trades_since(symbol, since).latest_id>>,
                            get_trades_since(symbol, since).trades,
                            <<>>, FALSE, <<>>)
    /\ UNCHANGED <<books, triggers, order_symbol_index, recent_trades, id_counter,
                   rescans, trigger_loop, outside_vars>>

\* Orders are submitted and the trades polled.
NextPoll == Submit \/ Return \/ Poll

PollSpec == Init /\ [][NextPoll]_vars

\* the requests of the scans over several pending orders: limit orders
\* and conditional orders of a positive quantity
ScanRequest ==
    {r \in OrderRequest : r.type \in {"limit"} \cup TriggerTypes /\ r.quantity > 0}

\* POST /orders with such a request
SubmitScan ==
    /\ Idle
    /\ id_counter <= MaxIdScan
    /\ \E req \in ScanRequest :
        /\ (req.type \in TriggerTypes => Len(triggers[req.symbol]) < MaxPending)
        /\ submit_order(req)
        /\ UNCHANGED <<trigger_loop, outside_vars>>

\* Orders are submitted and the triggers scanned.
NextScan == SubmitScan \/ Rescan \/ TriggerLoop \/ Return

ScanSpec == Init /\ [][NextScan]_vars

\* the depths a client asks for
Depths == 0..MaxDepth

\* {"price": str(price), "quantity": str(quantize_8(qty))}
L2Level(price, qty) ==
    [price |-> JsonStr(price), quantity |-> JsonStr(quantize_8(qty))]

\* one side of OrderBook.snapshot_l2: the loop over the levels of sd at the
\* prices `prices`, out being the list built so far.  A level with a
\* positive quantity is appended, and the loop is left once the list holds
\* at least depth entries: the length is tested after the append.
RECURSIVE L2Walk(_, _, _, _)
L2Appended(sd, prices, out) ==
    IF total_quantity(sd[Head(prices)]) > 0
    THEN Append(out, L2Level(Head(prices), total_quantity(sd[Head(prices)])))
    ELSE out

L2Rest(sd, prices, depth, out1) ==
    IF Len(out1) >= depth THEN out1 ELSE L2Walk(sd, Tail(prices), depth, out1)

L2Walk(sd, prices, depth, out) ==
    IF prices = <<>> THEN out
    ELSE L2Rest(sd, prices, depth, L2Appended(sd, prices, out))

\* OrderBook.snapshot_l2(depth): bids from the highest price down, asks
\* from the lowest price up
snapshot_l2(book, depth) ==
    [bids |-> L2Walk(book.bids, Reverse(SortedAsc(DOMAIN book.bids)), depth, <<>>),
     asks |-> L2Walk(book.asks, SortedAsc(DOMAIN book.asks), depth, <<>>)]

\* GET /orderbook/{symbol}?depth=...: MatchingEngine.get_l2 makes the book
\* of the symbol if there is none and answers with its snapshot; `order`
\* carries <<bids, asks>>
GetL2 ==
    /\ Idle
    /\ \E symbol \in Symbols, depth \in Depths :
          /\ books' = DictPut(books, symbol, BookOf(symbol))
          /\ result' = Outcome("get_l2", <<symbol, depth>>,
                               <<snapshot_l2(BookOf(symbol), depth).bids,
                                 snapshot_l2(BookOf(symbol), depth).asks>>,
                               <<>>, <<>>, FALSE, <<>>)
    /\ UNCHANGED <<triggers, order_symbol_index, recent_trades, id_counter,
                   rescans, trigger_loop, outside_vars>>

\* Orders are submitted and the book is read.
NextL2 == Submit \/ Return \/ GetL2

L2Spec == Init /\ [][NextL2]_vars

\* /ws/marketdata, /ws/trades: the connection is accepted and registered
RegisterPush(w, ch) ==
    /\ sockets[w].state = "new"
    /\ sockets' = [sockets EXCEPT ![w].state = "open"]
    /\ ws' = WithClients(ws, ch, Clients(ws, ch) \cup {w})
    /\ UNCHANGED <<queues, ws_tasks, manager_side>>

\* the peer of a connection goes away: every later send raises
Disconnect(w) ==
    /\ sockets[w].state = "open"
    /\ sockets' = [sockets EXCEPT ![w].state = "broken"]
    /\ UNCHANGED <<ws, queues, ws_tasks, manager_side>>

\* the handler of a connection ends: `finally: unregister_...(ws)`
UnregisterPush(w, ch) ==
    /\ w \in Clients(ws, ch)
    /\ ws' = WithClients(ws, ch, Clients(ws, ch) \ {w})
    /\ sockets' = [sockets EXCEPT ![w].state = "broken"]
    /\ UNCHANGED <<queues, ws_tasks, manager_side>>

\* /stream/marketdata, /stream/trades: register_..._stream
RegisterPull(q, ch) ==
    /\ queues[q].state = "new"
    /\ queues' = [queues EXCEPT ![q].state = "live"]
    /\ ws' = WithStreams(ws, ch, Append(Streams(ws, ch), q))
    /\ UNCHANGED <<sockets, ws_tasks, manager_side>>

\* the event generator of a stream ends: `finally: unregister_..._stream(queue)`
UnregisterPull(q, ch) ==
    /\ q \in AllPullOf(ws, <<ch>>)
    /\ ws' = WithStreams(ws, ch, ListWithout(Streams(ws, ch), q))
    /\ UNCHANGED <<sockets, queues, ws_tasks, manager_side>>

\* the event generator takes a message: queue.get()
Drain(q) ==
    /\ queues[q].state = "live"
    /\ Held(queues[q]) > 0
    /\ queues' = [queues EXCEPT ![q].taken = @ + 1]
    /\ UNCHANGED <<ws, sockets, ws_tasks, manager_side>>

TasksOf(kind, loops) ==
    {i \in 1..Len(ws_tasks) : ws_tasks[i].kind = kind /\ ws_tasks[i].fanout = loops}

\* _record_trades_and_broadcast: asyncio.create_task(self.ws.broadcast_...)
Schedule(ch) ==
    /\ Len(ws_tasks) < MaxTasks
    /\ ws_tasks' = Append(ws_tasks, NewTask("broadcast", <<ch>>,
                                      Cardinality(TasksOf("broadcast", <<ch>>)) + 1))
    /\ UNCHANGED <<ws, sockets, queues, manager_side>>

\* heartbeat: asyncio.sleep(interval) ends
Tick ==
    /\ Len(ws_tasks) < MaxTasks
    /\ ws_tasks' = Append(ws_tasks, NewTask("heartbeat", <<"marketdata", "trades">>,
                                      HeartbeatFrame))
    /\ UNCHANGED <<ws, sockets, queues, manager_side>>

\* a task gets its first turn on the event loop
Run(i) ==
    /\ ws_tasks[i].pc = "ready"
    /\ FirstReady(i)
    /\ proceed(i, Started(ws_tasks[i], ws), ws, SkipEmpty(ws_tasks[i].loops, ws))
    /\ UNCHANGED manager_side

\* the awaited send returned or raised and the loop goes on to its next client
Resume(i) ==
    /\ ws_tasks[i].pc = "sending"
    /\ \E w \in ws_tasks[i].todo :
          /\ sockets' = SendTo(sockets, w, ws_tasks[i].msg)
          /\ ws_tasks' = [ws_tasks EXCEPT ![i] = AfterSend(ws_tasks[i], w, SendRaises(sockets, w))]
    /\ UNCHANGED <<ws, queues, manager_side>>

\* the awaited send returned or raised and the loop is over
LoopEnd(i) ==
    /\ ws_tasks[i].pc = "sending"
    /\ ws_tasks[i].todo = {}
    /\ proceed(i, ws_tasks[i], Unregistered(ws, ws_tasks[i]),
               SkipEmpty(ws_tasks[i].loops, Unregistered(ws, ws_tasks[i])))
    /\ UNCHANGED manager_side

NextFanout ==
    \/ \E w \in PushIds, ch \in Channels : RegisterPush(w, ch)
    \/ \E w \in PushIds : Disconnect(w)
    \/ \E w \in PushIds, ch \in Channels : UnregisterPush(w, ch)
    \/ \E q \in PullIds, ch \in Channels : RegisterPull(q, ch)
    \/ \E q \in PullIds, ch \in Channels : UnregisterPull(q, ch)
    \/ \E q \in PullIds : Drain(q)
    \/ \E ch \in Channels : Schedule(ch)
    \/ Tick
    \/ \E i \in 1..Len(ws_tasks) : Run(i)
    \/ \E i \in 1..Len(ws_tasks) : Resume(i)
    \/ \E i \in 1..Len(ws_tasks) : LoopEnd(i)

\* The WebsocketManager with its consumers and ws_tasks, the engine left aside.
FanoutSpec == Init /\ [][NextFanout]_vars

\* broadcast_marketdata(symbol, book, depth=10)
MarketdataDepth == 10

\* the message of broadcast_marketdata: the snapshot of the book with the
\* symbol added
MarketdataMessage(symbol, book) ==
    [symbol |-> symbol,
     bids |-> snapshot_l2(book, MarketdataDepth).bids,
     asks |-> snapshot_l2(book, MarketdataDepth).asks]

\* asyncio.create_task(self.ws.broadcast_marketdata(symbol, book)): the
\* task holds its arguments until it gets its first turn
MarketdataTask(symbol) == NewTask("broadcast", <<"marketdata">>, [symbol |-> symbol])

\* the limit orders with a price, of quantity 1
MarketdataRequest ==
    {r \in OrderRequest : r.type = "limit" /\ r.price # Null /\ r.quantity = 1}

\* POST /orders with the broadcast_marketdata task that
\* _record_trades_and_broadcast creates
SubmitMarketdata ==
    /\ Idle
    /\ Len(ws_tasks) < MaxTasks
    /\ \E req \in MarketdataRequest :
        /\ submit_order(req)
        /\ ws_tasks' = Append(ws_tasks, MarketdataTask(req.symbol))
        /\ UNCHANGED <<trigger_loop, disk, restarts, file_vars, ws, sockets, queues, lk>>

\* DELETE /orders/{order_id} with the broadcast_marketdata task that
\* cancel_order creates when it removed the order from the book
CancelMarketdata ==
    /\ Idle
    /\ Len(ws_tasks) < MaxTasks
    /\ \E order_id \in 1..MaxId :
        /\ cancel_order(order_id)
        /\ ws_tasks' = IF order_id \in DOMAIN order_symbol_index /\ result'.order # <<>>
                       THEN Append(ws_tasks, MarketdataTask(order_symbol_index[order_id]))
                       ELSE ws_tasks
        /\ UNCHANGED <<recent_trades, id_counter, rescans, trigger_loop, disk, restarts,
                       file_vars, ws, sockets, queues, lk>>

\* a broadcast_marketdata task gets its first turn: it takes the snapshot
\* of the book as the book is now and goes on to its sends
RunMarketdata(i) ==
    /\ ws_tasks[i].pc = "ready"
    /\ FirstReady(i)
    /\ proceed(i, [Started(ws_tasks[i], ws) EXCEPT
                      !.msg = MarketdataMessage(@.symbol, BookOf(@.symbol))],
               ws, SkipEmpty(ws_tasks[i].loops, ws))
    /\ UNCHANGED manager_side

NextMarketdata ==
    \/ SubmitMarketdata
    \/ CancelMarketdata
    \/ Return
    \/ \E w \in PushIds : RegisterPush(w, "marketdata")
    \/ \E w \in PushIds : Disconnect(w)
    \/ \E w \in PushIds : UnregisterPush(w, "marketdata")
    \/ \E q \in PullIds : RegisterPull(q, "marketdata")
    \/ \E q \in PullIds : UnregisterPull(q, "marketdata")
    \/ \E q \in PullIds : Drain(q)
    \/ \E i \in 1..Len(ws_tasks) : RunMarketdata(i)
    \/ \E i \in 1..Len(ws_tasks) : Resume(i)
    \/ \E i \in 1..Len(ws_tasks) : LoopEnd(i)

\* The engine with the market-data broadcasts of its orders and cancels and
\* the consumers of the marketdata channel.
MarketdataSpec == Init /\ [][NextMarketdata]_vars

\* The writes of save_state and the reads of load_state on the persist
\* directory, the engine left aside.
FileSpec == Init /\ [][NextFile]_vars

\* ------------------------------------------------------------ observations
Range(s) == {s[i] : i \in 1..Len(s)}

\* the orders resting on one side of a book, and on the whole book
SideOrders(sd) == UNION {Range(sd[p]) : p \in DOMAIN sd}
Resting(book) == SideOrders(book.bids) \cup SideOrders(book.asks)

\* position of an id in a sequence of ids (0 when absent)
PosOf(ids, id) ==
    IF \E i \in 1..Len(ids) : ids[i] = id
    THEN SetMin({i \in 1..Len(ids) : ids[i] = id}) ELSE 0

\* p is a strictly better price than q for a taker of the given side
Better(side, p, q) == IF side = "buy" THEN p < q ELSE p > q

\* total remaining resting opposite a taker of `side`, at any price for a
\* market order (cap = Null and any = TRUE), else at prices no worse than cap
Liquidity(book, side, cap, any) ==
    LET sd == get_side_book(book, Opposite(side))
        within == {p \in DOMAIN sd :
                     \/ any
                     \/ cap # Null /\ ~Better(Opposite(side), p, cap)}
        keys == SortedAsc(within)
    IN SumSeq([i \in 1..Len(keys) |-> total_quantity(sd[keys[i]])])

Submitted == result.op = "submit_order" /\ ~result.raised
Returned == result.order[1]
Filled(o) == o.quantity - o.remaining

\* C1: in every fill of the call that just ended (a submit or a trigger
\* activation) the maker rested on the side opposite the taker, no order with
\* remaining > 0 rested there at a strictly better price, and none at the
\* maker's price had been added to the book before the maker.
PriceTimePriority ==
    \A i \in 1..Len(result.fills) :
        LET f == result.fills[i]
            mk == f.maker_before
            others == SideOrders(f.opp_before) \ {mk}
        IN /\ mk \in SideOrders(f.opp_before)
           /\ mk.side = Opposite(f.taker_before.side)
           /\ \A o \in others :
                o.remaining > 0 =>
                  /\ ~Better(f.taker_before.side, o.price, mk.price)
                  /\ o.price = mk.price =>
                       PosOf(f.arrival_before, mk.order_id)
                         < PosOf(f.arrival_before, o.order_id)

\* C1 witness: one taker filled the two makers resting at one price, the
\* earlier-added first.
PriceTimePriorityWitness ==
    /\ Len(result.fills) = 2
    /\ result.fills[1].price = result.fills[2].price
    /\ result.fills[1].maker # result.fills[2].maker
    /\ Len(result.fills[1].opp_before[result.fills[1].price]) = 2

\* C2: every trade the call recorded carries the price at which its maker
\* rested, the taker's side as aggressor_side, the resting order as
\* maker_order_id and the incoming or activated order as taker_order_id;
\* the recorded trades are the newest entries of recent_trades.
TradeCarriesMakerPrice ==
    /\ Len(result.trades) = Len(result.fills)
    /\ \A i \in 1..Len(result.trades) :
        LET t == result.trades[i]
            f == result.fills[i]
        IN /\ f.maker_before \in SideOrders(f.opp_before)
           /\ f.taker_before \notin SideOrders(f.opp_before)
           /\ t.price = f.maker_before.price
           /\ t.aggressor_side = f.taker_before.side
           /\ t.maker_order_id = f.maker_before.order_id
           /\ t.taker_order_id = f.taker_before.order_id
    /\ result.trades # <<>> =>
         LET ring == recent_trades[result.trades[1].symbol]
         IN /\ Len(ring) >= Len(result.trades)
            /\ SubSeq(ring, Len(ring) - Len(result.trades) + 1, Len(ring))
                 = result.trades

\* C2 witness: a trade below the limit price of a buying taker.
TradeCarriesMakerPriceWitness ==
    \E i \in 1..Len(result.trades) :
        /\ result.fills[i].taker_before.price # Null
        /\ result.fills[i].taker_before.side = "buy"
        /\ result.trades[i].price < result.fills[i].taker_before.price

\* quantity the fills of the call took from the level at price p
FilledAt(fills, p) ==
    SumSeq([i \in 1..Len(fills) |-> IF fills[i].price = p THEN fills[i].qty ELSE 0])

LevelTotal(sd, p) == IF p \in DOMAIN sd THEN total_quantity(sd[p]) ELSE 0

\* the step is a submit of a taker of one of `types` that returned
SubmitStep(types) ==
    /\ result'.op = "submit_order"
    /\ ~result'.raised
    /\ result'.order[1].type \in types

\* The statement of C3 for one returned taker o, `pre` the book before the
\* submit and `post` the book after it.
FilledAsStated(o, fills, pre, post) ==
    LET opp == get_side_book(pre, Opposite(o.side))
        opp2 == get_side_book(post, Opposite(o.side))
    IN /\ Filled(o) = Min2(o.quantity,
                           Liquidity(pre, o.side, o.price, o.type = "market"))
       /\ \A p \in DOMAIN opp :
            /\ LevelTotal(opp2, p) = LevelTotal(opp, p) - FilledAt(fills, p)
            /\ FilledAt(fills, p) > 0 =>
                 \A q \in DOMAIN opp : Better(o.side, q, p) => q \notin DOMAIN opp2

\* C3: a market order fills min(quantity, total remaining opposite), a limit
\* or IOC order min(quantity, total remaining opposite at prices no worse
\* than its price); levels are consumed best-first and each loses exactly
\* the quantity traded against it.
FilledQuantityOfTaker ==
    [][SubmitStep({"market", "limit", "ioc"}) =>
         FilledAsStated(result'.order[1], result'.fills,
                        BookOf(result'.order[1].symbol),
                        books'[result'.order[1].symbol])]_vars

\* C4: on every symbol the best bid is below the best ask, or a side of
\* the book is empty, after every submit, cancel and trigger activation.
BookNeverCrossed ==
    \A sym \in DOMAIN books :
        LET bid == best_prices(books[sym])[1]
            ask == best_prices(books[sym])[2]
        IN bid = Null \/ ask = Null \/ bid < ask

\* C4 witness: a limit order filled in part against the best ask and rested
\* its remainder below the asks that remain.
BookNeverCrossedWitness ==
    /\ Submitted
    /\ Returned.type = "limit" /\ Returned.side = "buy"
    /\ result.fills # <<>>
    /\ Returned.remaining > 0
    /\ DOMAIN books[Returned.symbol].asks # {}
    /\ Returned.price \in DOMAIN books[Returned.symbol].bids

\* the orders the engine holds or has just returned
Pending == UNION {Range(triggers[sym]) : sym \in Symbols}
OnBooks == UNION {Resting(books[sym]) : sym \in DOMAIN books}
Handed == (IF Submitted THEN {Returned} ELSE {}) \cup Range(result.activated)

\* C5: 0 <= remaining <= quantity for every order returned from
\* submit_order, resting on a book or pending in a triggers list.
RemainingWithinQuantity ==
    \A o \in Pending \cup OnBooks \cup Handed :
        0 <= o.remaining /\ o.remaining <= o.quantity

ExecutedOf(o) ==
    IF o.symbol \in DOMAIN books THEN Executed(books[o.symbol], o.order_id) ELSE 0

\* quantity an order took as the taker in the fills of the call
TakenBy(fills, id) ==
    SumSeq([i \in 1..Len(fills) |-> IF fills[i].taker = id THEN fills[i].qty ELSE 0])

\* C6: the quantities of the raw fills an order took part in plus its
\* remaining equal its quantity, for every order the engine holds or has
\* just returned, for every activated order as _submit_activated left it,
\* and for maker and taker at the instant of every fill; in every fill both
\* remaining quantities decrease by the fill's quantity.
QuantityConserved ==
    /\ \A o \in Pending \cup OnBooks \cup (IF Submitted THEN {Returned} ELSE {}) :
          ExecutedOf(o) + o.remaining = o.quantity
    /\ \A o \in Range(result.activated) :
          TakenBy(result.fills, o.order_id) + o.remaining = o.quantity
    /\ \A i \in 1..Len(result.fills) :
          LET f == result.fills[i]
          IN /\ f.maker_before.remaining - f.maker_after.remaining = f.qty
             /\ f.taker_before.remaining - f.taker_after.remaining = f.qty
             /\ f.maker_executed + f.maker_after.remaining = f.maker_after.quantity
             /\ f.taker_executed + f.taker_after.remaining = f.taker_after.quantity

\* C6 witness: the taker of the call was filled and a maker filled in part
\* still rests.
QuantityConservedWitness ==
    /\ Submitted
    /\ Filled(Returned) > 0
    /\ \E o \in OnBooks : ExecutedOf(o) > 0 /\ o.remaining > 0 /\ o # Returned

\* C7: every order in a price level is a limit order with a price equal to
\* the level's key, the side of the book side holding the level and
\* remaining > 0, and no level has an empty queue.
BookStructure ==
    \A sym \in DOMAIN books : \A side \in Sides :
        LET sd == get_side_book(books[sym], side)
        IN \A p \in DOMAIN sd :
              /\ sd[p] # <<>>
              /\ \A o \in Range(sd[p]) :
                    /\ o.type = "limit"
                    /\ o.price # Null /\ o.price = p
                    /\ o.side = side
                    /\ o.remaining > 0

\* C7 witness: the call filled the last order of a level, the level is gone,
\* and orders still rest on that side.
BookStructureWitness ==
    \E i \in 1..Len(result.fills) :
        LET f == result.fills[i]
            sd == get_side_book(books[f.maker_before.symbol], f.maker_before.side)
        IN /\ f.maker_after.remaining = 0
           /\ Len(f.opp_before[f.price]) = 1
           /\ f.price \notin DOMAIN sd
           /\ DOMAIN sd # {}

IdOnBook(book, id) ==
    \/ id \in DOMAIN book.order_index
    \/ \E o \in Resting(book) : o.order_id = id

\* what C8 says of the state a returned submit leaves
NothingRestsButLimit ==
    Submitted =>
        LET o == Returned
            book == books[o.symbol]
            sd == get_side_book(book, o.side)
        IN /\ o.type \in {"market", "ioc"} =>
                /\ ~IdOnBook(book, o.order_id)
                /\ o.order_id \notin DOMAIN order_symbol_index
                /\ o \notin Resting(book)
           /\ (o.type = "limit" /\ o.remaining > 0) =>
                /\ o.price \in DOMAIN sd
                /\ sd[o.price][Len(sd[o.price])] = o
                /\ o.order_id \in DOMAIN order_symbol_index
                /\ order_symbol_index[o.order_id] = o.symbol

\* C8: after a submit of type market or ioc returns, the order is neither
\* on the book nor in order_symbol_index, whatever was filled (a market
\* order that finds the opposite side empty returns no trade and its whole
\* quantity unfilled); a limit order with remaining > 0 after matching is
\* the tail of the level at its price.
MarketAndIocNeverRest ==
    [][/\ NothingRestsButLimit'
       /\ (/\ SubmitStep({"market"})
           /\ get_side_book(BookOf(result'.order[1].symbol),
                            Opposite(result'.order[1].side)) = EmptyDict)
          => /\ result'.trades = <<>>
             /\ result'.order[1].remaining = result'.order[1].quantity
             /\ books'[result'.order[1].symbol] = BookOf(result'.order[1].symbol)]_vars

\* C8 witness: an ioc order was filled in part and returned with a
\* remainder while orders rest on the book.
MarketAndIocNeverRestWitness ==
    /\ Submitted
    /\ Returned.type = "ioc"
    /\ result.fills # <<>>
    /\ Returned.remaining > 0
    /\ Resting(books[Returned.symbol]) # {}

WithinLimit(o, price) ==
    o.price # Null /\ ~Better(Opposite(o.side), price, o.price)

\* C9: a submit of type fok either fills the full quantity with every fill
\* at a price no worse than its limit, or records no trade, fills nothing
\* and leaves the book (last_trade_price included) and recent_trades as
\* they were; a fok for no more than the liquidity within its limit fills.
FokAllOrNothing ==
    [][SubmitStep({"fok"}) =>
         LET o == result'.order[1]
             pre == BookOf(o.symbol)
             full == /\ result'.fills # <<>>
                     /\ Filled(o) = o.quantity
                     /\ \A i \in 1..Len(result'.fills) :
                           WithinLimit(o, result'.fills[i].price)
             none == /\ result'.trades = <<>> /\ result'.fills = <<>>
                     /\ Filled(o) = 0
                     /\ books'[o.symbol] = pre
                     /\ recent_trades' = recent_trades
         IN /\ full \/ none
            /\ (o.quantity > 0 /\ o.price # Null
                  /\ Liquidity(pre, o.side, o.price, FALSE) >= o.quantity) => full]_vars

\* C9 witness: a fok order took exactly the two orders resting within its
\* limit and left that side of the book empty.
FokAllOrNothingWitness ==
    /\ Submitted
    /\ Returned.type = "fok"
    /\ Len(result.fills) = 2
    /\ Returned.remaining = 0
    /\ get_side_book(books[Returned.symbol], Opposite(Returned.side)) = EmptyDict

\* requests that break a precondition of the submit contract
Malformed(req) ==
    \/ req.quantity <= 0
    \/ req.type \in {"limit", "stop_limit"} /\ req.price = Null
    \/ req.type \in {"stop", "stop_limit"} /\ req.stop_price = Null
    \/ req.type = "take_profit" /\ req.take_profit_price = Null

\* C10: a submit with quantity <= 0, or without the price, stop_price or
\* take_profit_price its type requires, ends in an error and adds no order
\* to the book, the triggers or order_symbol_index and records no trade.
MalformedSubmitRejected ==
    [][(result'.op = "submit_order" /\ Malformed(result'.req[1])) =>
         /\ result'.raised
         /\ books'[result'.req[1].symbol] = BookOf(result'.req[1].symbol)
         /\ triggers' = triggers
         /\ order_symbol_index' = order_symbol_index
         /\ recent_trades' = recent_trades]_vars

\* ids of a set of orders
Ids(orders) == {o.order_id : o \in orders}

\* ids of the makers and takers of a sequence of fills
Parties(fills) ==
    {fills[i].maker : i \in 1..Len(fills)} \cup {fills[i].taker : i \in 1..Len(fills)}

\* an issued id that no book and no triggers list holds
Gone(id) == id < id_counter /\ id \notin Ids(OnBooks \cup Pending)

\* the step is a cancel_order call
CancelStep == result'.op = "cancel_order" /\ ~Idle'

\* C11: cancel of a resting order takes exactly that order out of its level
\* (the others keep their order), returns it and drops its
\* order_symbol_index entry; cancel of an id that neither rests nor pends
\* (cancelled before, or never issued) returns null and changes nothing; an
\* order that left the book and the triggers never returns to them and
\* takes part in no later fill.
CancelRemovesExactlyThatOrder ==
    [][/\ CancelStep =>
            LET id == result'.req[1].order_id
            IN /\ id \in Ids(OnBooks) =>
                    \E o \in OnBooks :
                       LET sd == get_side_book(books[o.symbol], o.side)
                           sd2 == get_side_book(books'[o.symbol], o.side)
                           rest == SelectSeq(sd[o.price], LAMBDA x : x # o)
                       IN /\ o.order_id = id
                          /\ result'.order = <<o>>
                          /\ IF rest = <<>> THEN o.price \notin DOMAIN sd2
                             ELSE o.price \in DOMAIN sd2 /\ sd2[o.price] = rest
                          /\ \A p \in DOMAIN sd \ {o.price} :
                                p \in DOMAIN sd2 /\ sd2[p] = sd[p]
                          /\ DOMAIN sd2 \subseteq DOMAIN sd
                          /\ get_side_book(books'[o.symbol], Opposite(o.side))
                               = get_side_book(books[o.symbol], Opposite(o.side))
                          /\ id \notin DOMAIN order_symbol_index'
                          /\ id \notin DOMAIN books'[o.symbol].order_index
                          /\ triggers' = triggers
               /\ id \notin Ids(OnBooks \cup Pending) =>
                    /\ result'.order = <<>>
                    /\ books' = books
                    /\ triggers' = triggers
                    /\ order_symbol_index' = order_symbol_index
       /\ \A id \in 1..(id_counter - 1) :
            Gone(id) => Gone(id)' /\ id \notin Parties(result'.fills)]_vars

\* C11 witness: a cancel returned an order from a level where another
\* order stays.
CancelRemovesExactlyThatOrderWitness ==
    /\ result.op = "cancel_order"
    /\ result.order # <<>>
    /\ result.order[1].type = "limit"
    /\ result.order[1].symbol \in DOMAIN books
    /\ LET o == result.order[1]
           sd == get_side_book(books[o.symbol], o.side)
       IN o.price \in DOMAIN sd /\ o \notin Range(sd[o.price])

\* C12: cancel of an order pending in a triggers list returns that order
\* and takes it out of the list.
CancelOfPendingOrder ==
    [][(CancelStep /\ result'.req[1].order_id \in Ids(Pending)) =>
         /\ result'.order # <<>>
         /\ result'.order[1] \in Pending
         /\ result'.order[1].order_id = result'.req[1].order_id
         /\ result'.req[1].order_id \notin Ids(Pending')]_vars

\* the positions of triggers lists, and of level queues, that hold an order
\* with the id
TriggerPlaces(id) ==
    UNION {{<<sym, i>> : i \in {j \in 1..Len(triggers[sym]) :
                                   triggers[sym][j].order_id = id}} : sym \in Symbols}
BookPlaces(id) ==
    UNION {UNION {UNION {{<<sym, side, p, i>> :
                            i \in {j \in 1..Len(get_side_book(books[sym], side)[p]) :
                                     get_side_book(books[sym], side)[p][j].order_id = id}} :
                         p \in DOMAIN get_side_book(books[sym], side)} :
                  side \in Sides} :
           sym \in DOMAIN books}
Places(id) == Cardinality(TriggerPlaces(id)) + Cardinality(BookPlaces(id))

\* C13: an order id is in order_symbol_index exactly when the order rests on
\* one price level or pends in one triggers list.
IndexAgreesWithResidency ==
    /\ DOMAIN order_symbol_index = Ids(OnBooks \cup Pending)
    /\ \A id \in DOMAIN order_symbol_index : Places(id) = 1

\* the step is a scan of the triggers of a symbol
ScanStep == result'.op = "process_triggers" /\ ~Idle'

\* x >= y and x <= y on prices that may be null: false when one is null
Ge(x, y) == x # Null /\ y # Null /\ x >= y
Le(x, y) == x # Null /\ y # Null /\ x <= y

\* the activation condition of a pending order on the observed
\* last trade price, best bid and best ask
ConditionHolds(od, last, bid, ask) ==
    CASE od.type \in {"stop", "stop_limit"} ->
           IF od.side = "buy"
           THEN Ge(last, od.stop_price) \/ Ge(ask, od.stop_price)
           ELSE Le(last, od.stop_price) \/ Le(bid, od.stop_price)
      [] od.type = "take_profit" ->
           IF od.side = "sell"
           THEN Ge(last, od.take_profit_price) \/ Ge(ask, od.take_profit_price)
           ELSE Le(last, od.take_profit_price) \/ Le(bid, od.take_profit_price)
      [] OTHER -> FALSE

\* C14: a scan of a symbol activates a pending order exactly when its
\* condition holds on the last trade price, best bid and best ask the scan
\* observed; an order whose condition does not hold stays in the triggers
\* list as it was.
ScanActivatesOnCondition ==
    [][ScanStep =>
         LET sym == result'.req[1].symbol
             last == books[sym].last_trade_price
             bid == best_prices(books[sym])[1]
             ask == best_prices(books[sym])[2]
         IN \A od \in Range(triggers[sym]) :
               IF ConditionHolds(od, last, bid, ask)
               THEN /\ od.order_id \in Ids(Range(result'.activated))
                    /\ od.order_id \notin Ids(Range(triggers'[sym]))
               ELSE /\ od \in Range(triggers'[sym])
                    /\ od.order_id \notin Ids(Range(result'.activated))]_vars

\* the pending order a scan activated as entry k of its activations
PendingOf(k) ==
    CHOOSE od \in Pending : od.order_id = result'.activated[k].order_id

\* C15: an activated stop order without price becomes a market order; an
\* activated stop order with a price and every activated stop_limit order
\* becomes a limit order, fills at prices within its limit only, and rests
\* on the book with what remains.
StopTransitionOnActivation ==
    [][ScanStep =>
         \A k \in 1..Len(result'.activated) :
            LET a == result'.activated[k]
                od == PendingOf(k)
            IN /\ (od.type = "stop" /\ od.price = Null) => a.type = "market"
               /\ ((od.type = "stop" /\ od.price # Null) \/ od.type = "stop_limit") =>
                    /\ a.type = "limit"
                    /\ \A i \in 1..Len(result'.fills) :
                          result'.fills[i].taker = a.order_id =>
                             WithinLimit(a, result'.fills[i].price)
                    /\ a.remaining > 0 =>
                          \/ a.order_id \in Ids(Resting(books'[a.symbol]))
                          \/ \E i \in 1..Len(result'.fills) :
                                result'.fills[i].maker = a.order_id]_vars

\* C16: an activated take_profit order that finds the opposite side of the
\* book non-empty fills min(remaining, total remaining opposite) whatever
\* its price, and what is left of it does not rest.  Stated for the
\* first order a scan activates, which meets the book the scan started on.
TakeProfitHasMarketSemantics ==
    [][(ScanStep /\ result'.activated # <<>>) =>
         LET a == result'.activated[1]
             od == PendingOf(1)
             book == books[od.symbol]
         IN (/\ od.type = "take_profit"
             /\ get_side_book(book, Opposite(od.side)) # EmptyDict) =>
               /\ TakenBy(result'.fills, od.order_id)
                    = Min2(od.remaining, Liquidity(book, od.side, Null, TRUE))
               /\ a.order_id \notin Ids(Resting(books'[od.symbol]))]_vars

\* C17: a submit of type stop, stop_limit or take_profit returns at once
\* with no trade, leaves the book as it was and puts the order at the end
\* of the triggers list of its symbol; every order id is held by at most
\* one position of one level queue or triggers list, so an order in a
\* triggers list is not on the book.
ExclusiveOwnership ==
    [][/\ SubmitStep(TriggerTypes) =>
            LET o == result'.order[1]
            IN /\ result'.trades = <<>> /\ result'.fills = <<>>
               /\ o.remaining = o.quantity
               /\ books'[o.symbol] = BookOf(o.symbol)
               /\ recent_trades' = recent_trades
               /\ triggers'[o.symbol] = Append(triggers[o.symbol], o)
       /\ \A id \in 1..id_counter' : Places(id)' <= 1
       /\ Ids(Pending') \cap Ids(OnBooks') = {}]_vars

\* C17 witness: a scan activated a pending order and it now rests on the
\* book, out of the triggers list.
ExclusiveOwnershipWitness ==
    /\ result.op = "process_triggers"
    /\ \E k \in 1..Len(result.activated) :
          /\ result.activated[k] \in OnBooks
          /\ result.activated[k].order_id \notin Ids(Pending)


\* ------------------------------------------------- save_state / load_state
\* a graceful restart: save_state on the old engine, then load_state on a
\* new one
RoundTripStep == Idle /\ result'.op = "restart"

\* what the round trip is to keep of a resting order and of a trade
OrderCore(o) == <<o.order_id, o.side, o.price, o.quantity, o.remaining>>
TradeCore(t) == <<t.trade_id, t.price, t.quantity>>

RECURSIVE OpenCores(_)
OpenCores(queue) ==
    IF queue = <<>> THEN <<>>
    ELSE (IF Head(queue).type = "limit" /\ Head(queue).remaining > 0
          THEN <<OrderCore(Head(queue))>> ELSE <<>>) \o OpenCores(Tail(queue))

LevelCores(book, side, price) ==
    IF price \in DOMAIN get_side_book(book, side)
    THEN OpenCores(get_side_book(book, side)[price]) ELSE <<>>

\* C18: save_state followed by load_state into a fresh engine reproduces
\* every resting limit order with remaining > 0 (id, side, price, quantity,
\* remaining, and the FIFO order inside its price level) and reproduces
\* recent_trades of every symbol in the original order, with the same
\* prices and quantities.
SaveLoadRoundTrip ==
    [][RoundTripStep =>
        /\ \A sym \in DOMAIN books : \A side \in Sides : \A price \in Prices :
              /\ sym \in DOMAIN books'
              /\ LevelCores(books'[sym], side, price)
                   = LevelCores(books[sym], side, price)
        /\ \A sym \in Symbols :
              [i \in 1..Len(recent_trades'[sym]) |-> TradeCore(recent_trades'[sym][i])]
                = [i \in 1..Len(recent_trades[sym]) |-> TradeCore(recent_trades[sym][i])]
      ]_vars


\* C19: a stop, stop_limit or take_profit order pending in triggers[symbol]
\* when save_state runs is pending in triggers[symbol] of the engine that
\* then runs load_state on the saved snapshot.
ConditionalOrdersSurvive ==
    [][RoundTripStep =>
        \A sym \in Symbols : \A i \in 1..Len(triggers[sym]) :
           triggers[sym][i].type \in TriggerTypes
             => \E j \in 1..Len(triggers'[sym]) :
                   triggers'[sym][j] = triggers[sym][i]
      ]_vars


\* ------------------------------------------------------ the committed file
CompleteSnapshot(content) ==
    \E k \in 1..Len(passed) : content = Complete(passed[k])

\* C20: at every instant the committed file state.json is absent or holds
\* exactly one complete snapshot that was passed to some save_state call,
\* and load_state never returns a partial or mixed snapshot.
AtomicSnapshot ==
    /\ files.state # NoFile => CompleteSnapshot(inodes[files.state])
    /\ loaded.kind = "file" => CompleteSnapshot(loaded.content)


\* ------------------------------------------------------------------- ids
\* the step is a submit_order call; it mints the id id_counter
MintStep == Idle /\ result'.op = "submit_order"

\* C21: every order_id minted by submit_order differs from the id of every
\* order resting on a book or pending in a triggers list at that moment,
\* orders restored by load_state included; so no id is ever held by two
\* live orders.
OrderIdUnique ==
    [][/\ MintStep => id_counter \notin Ids(OnBooks \cup Pending)
       /\ \A id \in Ids(OnBooks \cup Pending)' : Places(id)' = 1
      ]_vars


Polled == result.op = "get_trades_since"
PolledRing == recent_trades[result.req[1]]
PolledSince == result.req[2]
SinceInRing == \E k \in 1..Len(PolledRing) : PolledRing[k].trade_id = PolledSince

\* C23: get_trades_since(symbol, since) returns the trades of the ring that
\* come strictly after the trade whose id is since, in ring order; the
\* whole ring when since is absent or not in the ring; latest_trade_id is
\* the id of the newest trade of the ring, null when the ring is empty.
PolledUpdates ==
    Polled =>
      /\ \A k \in 1..Len(PolledRing) :
            PolledSince # Null /\ PolledRing[k].trade_id = PolledSince
              => result.trades = SubSeq(PolledRing, k + 1, Len(PolledRing))
      /\ PolledSince = Null \/ ~SinceInRing => result.trades = PolledRing
      /\ result.order[1] = IF PolledRing = <<>> THEN Null
                           ELSE PolledRing[Len(PolledRing)].trade_id

PolledUpdatesWitness ==
    /\ Polled
    /\ Len(PolledRing) >= 2
    /\ PolledRing[1].trade_id = PolledSince
    /\ result.trades = Tail(PolledRing)


\* ---------------------------------------------------------------- fan-out
\* task i ends a loop over push clients in this step
LoopEndStep(i) ==
    /\ i \in 1..Len(ws_tasks)
    /\ ws_tasks[i].pc = "sending" /\ ws_tasks[i].todo = {}
    /\ ws_tasks'[i] # ws_tasks[i]

\* task i called send on w in this step and the call raised
SendRaisedStep(i, w) ==
    /\ i \in 1..Len(ws_tasks) /\ Len(ws_tasks') = Len(ws_tasks)
    /\ ws_tasks'[i].pc = "sending"
    /\ w \in ws_tasks'[i].dead
    /\ ws_tasks[i].pc = "sending" => w \notin ws_tasks[i].dead

Got(inbox, msg) == \E k \in 1..Len(inbox) : inbox[k] = msg

OtherChannel(ch) == IF ch = "marketdata" THEN "trades" ELSE "marketdata"

\* C24: when a push consumer raises on send during a broadcast, that
\* consumer and only that one is removed from its registry, every other
\* consumer of the channel still receives the message of the broadcast,
\* and the engine (books, indexes, results of submit_order and
\* cancel_order) is not touched.
DeliveryFailureIsolated ==
    [][\A i \in 1..MaxTasks :
         /\ \A w \in PushIds :
               SendRaisedStep(i, w) /\ ws_tasks'[i].kind = "broadcast"
                 => /\ UNCHANGED <<ws, engine_vars>>
                    /\ ws_tasks'[i].todo
                         = (IF ws_tasks[i].pc = "sending" THEN ws_tasks[i].todo
                            ELSE Clients(ws, ws_tasks'[i].channel)) \ {w}
         /\ LoopEndStep(i) /\ ws_tasks[i].kind = "broadcast"
              => /\ Clients(ws', ws_tasks[i].channel)
                      = Clients(ws, ws_tasks[i].channel) \ ws_tasks[i].dead
                 /\ Clients(ws', OtherChannel(ws_tasks[i].channel))
                      = Clients(ws, OtherChannel(ws_tasks[i].channel))
                 /\ \A w \in ws_tasks[i].snap \ ws_tasks[i].dead :
                       Got(sockets[w].inbox, ws_tasks[i].msg)
                 /\ \A k \in 1..Len(Streams(ws, ws_tasks[i].channel)) :
                       queues'[Streams(ws, ws_tasks[i].channel)[k]].log
                         = Append(queues[Streams(ws, ws_tasks[i].channel)[k]].log,
                                  ws_tasks[i].msg)
                 /\ UNCHANGED engine_vars
      ]_vars

DeliveryFailureIsolatedWitness ==
    \E i \in 1..Len(ws_tasks) : \E w1, w2 \in PushIds :
       /\ ws_tasks[i].kind = "broadcast"
       /\ ws_tasks[i].pc = "sending" /\ ws_tasks[i].todo = {}
       /\ ws_tasks[i].snap = {w1, w2} /\ ws_tasks[i].dead = {w1}
       /\ ~Got(sockets[w1].inbox, ws_tasks[i].msg)
       /\ Got(sockets[w2].inbox, ws_tasks[i].msg)
       /\ Streams(ws, ws_tasks[i].channel) # <<>>


\* C25: the queue of every registered pull consumer is bounded (it has a
\* positive maxsize) and the undelivered messages it holds never exceed
\* that bound; a consumer whose queue rejects the put leaves the registry.
PullQueuesBounded ==
    \A q \in AllPull(ws) :
       /\ QueueMaxsize > 0
       /\ Held(queues[q]) <= QueueMaxsize


\* the broadcast messages of a sequence come in the order they were scheduled
InScheduledOrder(msgs) ==
    \A j, k \in 1..Len(msgs) :
       j < k /\ msgs[j] # HeartbeatFrame /\ msgs[k] # HeartbeatFrame
         => msgs[j] < msgs[k]

\* C26: within one channel every consumer that stays registered receives
\* the messages in the order in which the engine scheduled the broadcasts,
\* under every interleaving of the broadcast tasks.
FanoutPreservesOrder ==
    /\ \A w \in AllPush(ws) : InScheduledOrder(sockets[w].inbox)
    /\ \A q \in AllPull(ws) : InScheduledOrder(queues[q].log)


\* round i of the heartbeat ends in this step
HeartbeatEndStep(i) ==
    /\ i \in 1..Len(ws_tasks)
    /\ ws_tasks[i].kind = "heartbeat"
    /\ ws_tasks[i].pc # "done" /\ ws_tasks'[i].pc = "done"

\* the consumers registered when round i started
AtTick(i) ==
    IF ws_tasks[i].pc = "ready"
    THEN [push |-> AllPush(ws), pull |-> AllPull(ws)]
    ELSE [push |-> ws_tasks[i].tick_push, pull |-> ws_tasks[i].tick_pull]

\* C27: on every heartbeat tick every consumer registered at that moment,
\* push or pull, is sent a heartbeat frame in that round unless it left
\* the registry (evicted because the send failed), also when only pull
\* consumers are registered.
HeartbeatReachesAll ==
    [][\A i \in 1..MaxTasks :
         HeartbeatEndStep(i) =>
            /\ \A w \in AtTick(i).push :
                  w \in AllPush(ws')
                    => w \in ws_tasks[i].snap /\ Got(sockets'[w].inbox, HeartbeatFrame)
            /\ \A q \in AtTick(i).pull :
                  q \in AllPull(ws')
                    => queues'[q].log = Append(queues[q].log, HeartbeatFrame)
      ]_vars


\* the answer of GET /orderbook and the book it was read from
GotL2 == result.op = "get_l2"
L2Book == BookOf(result.req[1])
L2Depth == result.req[2]

\* the levels reported for one side: out is the reported list, sd the side
\* of the book and best its prices from the best one on
L2SideCorrect(out, sd, best, depth) ==
    /\ Len(out) <= depth
    /\ Len(out) <= Len(best)
    /\ \A k \in 1..Len(out) :
          /\ k <= Len(best)
          /\ out[k].price = JsonStr(best[k])
          /\ out[k].quantity = JsonStr(total_quantity(sd[best[k]]))

\* C28: snapshot_l2(depth) returns, for every depth >= 0 and every
\* reachable book, at most depth levels per side; the bids are the
\* highest-priced levels in strictly descending price order, the asks the
\* lowest-priced levels in strictly ascending price order, and each
\* reported quantity is the sum of remaining of the orders resting at
\* that price.
SnapshotL2Correct ==
    GotL2 =>
      /\ L2SideCorrect(result.order[1], L2Book.bids,
                       Reverse(SortedAsc(DOMAIN L2Book.bids)), L2Depth)
      /\ L2SideCorrect(result.order[2], L2Book.asks,
                       SortedAsc(DOMAIN L2Book.asks), L2Depth)


\* ids of the orders pending in the triggers list of a symbol
PendingIds(sym) == Ids(Range(triggers[sym]))
PendingIdsAfter(sym) == Ids(Range(triggers'[sym]))

\* ids of the orders a scan activated
ActivatedIds == {result'.activated[k].order_id : k \in 1..Len(result'.activated)}

\* C29: each conditional order is activated at most once.  Under every
\* interleaving of the periodic scan, the post-trade process_triggers
\* tasks, submits and cancels an order enters a triggers list only at its
\* submit under a fresh id; a scan activates only orders that are pending,
\* each one time, has removed them from the triggers list when the pass is
\* over, and every trade of the pass carries the id of an activated order
\* as taker_order_id while the counter is drawn for trade ids only.
ActivatedAtMostOnce ==
    [][/\ id_counter' >= id_counter
       /\ \A sym \in Symbols :
             \A id \in PendingIdsAfter(sym) \ PendingIds(sym) :
                 MintStep /\ id = id_counter
       /\ ScanStep =>
            /\ \A k \in 1..Len(result'.activated) :
                  /\ result'.activated[k].order_id \in PendingIds(result'.req[1].symbol)
                  /\ result'.activated[k].order_id \notin PendingIdsAfter(result'.req[1].symbol)
                  /\ \A j \in 1..Len(result'.activated) :
                        j # k => result'.activated[j].order_id
                                   # result'.activated[k].order_id
            /\ Len(result'.trades) = Len(result'.fills)
            /\ \A k \in 1..Len(result'.trades) :
                  /\ result'.trades[k].taker_order_id = result'.fills[k].taker_before.order_id
                  /\ result'.trades[k].taker_order_id \in ActivatedIds
            /\ id_counter' = id_counter + Len(result'.trades)
      ]_vars

ActivatedAtMostOnceWitness ==
    /\ result.op = "process_triggers"
    /\ Len(result.activated) >= 1
    /\ Len(result.trades) >= 1
    /\ result.trades[1].taker_order_id = result.activated[1].order_id
    /\ result.activated[1].order_id \notin Ids(Pending)


\* positions in the triggers list, before the scan, of the activated orders
PlaceOf(sym, id) == SetMin({p \in 1..Len(triggers[sym]) : triggers[sym][p].order_id = id})

\* the remaining of an order resting or pending before the scan
RemainingAtStart(id) == (CHOOSE o \in OnBooks \cup Pending : o.order_id = id).remaining

\* the quantity the first n fills of a pass took from order id
RECURSIVE FilledIn(_, _, _)
FilledIn(fills, n, id) ==
    IF n = 0 THEN 0
    ELSE FilledIn(fills, n - 1, id)
         + (IF id \in {fills[n].maker, fills[n].taker} THEN fills[n].qty ELSE 0)

\* C30: scan tie-break.  Within one process_triggers pass the selected
\* orders are activated in their insertion order in triggers[symbol];
\* every order whose condition held on the (last, bid, ask) observed at
\* scan start is activated in that pass, even if fills of earlier
\* activations make its condition false; and each later activation
\* matches against the book as left by the earlier ones: every fill finds
\* its maker and its taker with what the earlier fills of the pass left.
ScanTieBreak ==
    [][ScanStep =>
         /\ \A j, k \in 1..Len(result'.activated) :
               j < k => PlaceOf(result'.req[1].symbol, result'.activated[j].order_id)
                          < PlaceOf(result'.req[1].symbol, result'.activated[k].order_id)
         /\ \A od \in Range(triggers[result'.req[1].symbol]) :
               ConditionHolds(od, books[result'.req[1].symbol].last_trade_price,
                              best_prices(books[result'.req[1].symbol])[1],
                              best_prices(books[result'.req[1].symbol])[2])
                 => od.order_id \in ActivatedIds
         /\ \A i \in 1..Len(result'.fills) :
               /\ result'.fills[i].maker_before.remaining
                    = RemainingAtStart(result'.fills[i].maker)
                        - FilledIn(result'.fills, i - 1, result'.fills[i].maker)
               /\ result'.fills[i].taker_before.remaining
                    = RemainingAtStart(result'.fills[i].taker)
                        - FilledIn(result'.fills, i - 1, result'.fills[i].taker)
      ]_vars


\* order id pends in a triggers list and its activation condition holds
\* on the last trade price, best bid and best ask of the book
PendingAndHolds(id) ==
    \E sym \in DOMAIN books :
       \E od \in Range(triggers[sym]) :
          /\ od.order_id = id
          /\ ConditionHolds(od, books[sym].last_trade_price,
                            best_prices(books[sym])[1], best_prices(books[sym])[2])

\* a process_triggers task is scheduled for the symbol / a scan of it ended
RescanDue(sym) == rescans[sym] > 0
Scanned(sym) == IF result.op = "process_triggers" THEN result.req[1].symbol = sym ELSE FALSE

\* C31: trigger liveness.  Under fair scheduling of the periodic scan and
\* of the post-trade rescan tasks no conditional order stays pending for
\* ever with its activation condition holding (it is removed from the
\* triggers list and matched), and every batch of recorded trades on a
\* symbol is followed by a trigger scan of that symbol.
TriggerLiveness ==
    /\ \A id \in 1..MaxId : []<>(~PendingAndHolds(id))
    /\ \A sym \in Symbols : RescanDue(sym) ~> Scanned(sym)


\* C32: background tasks never terminate on error.  For every sequence of
\* orders submit_order accepted, a stop order without stop_price included,
\* a trigger scan that fails on a pending order does not end the periodic
\* trigger loop: the loop is alive in every state reached before
\* teardown.  (The saver catches and logs what save_state raises and
\* the heartbeat catches what a send raises; neither has a step that ends
\* it.)
BackgroundTasksKeepRunning == trigger_loop = "running"


\* C33: the matching critical section never raises.  For every request
\* that reaches submit_order (any type, limit or fok without price and a
\* non-positive quantity included) and every reachable book, submit_order
\* returns an order with its trades instead of raising from inside the
\* per-symbol lock, and the next call finds the lock free.
SubmitNeverRaises ==
    result.op = "submit_order" =>
       /\ ~result.raised
       /\ Len(result.order) = 1
       /\ ENABLED Return


\* ------------------------------------------------------------------ locks
LockTasks == 1..Len(lk.tasks)

\* task t waits for a lock that task u holds
WaitsOn(t, u) ==
    \/ WaitsForSymbol(lk, t) /\ lk.locks[lk.tasks[t].symbol] = u
    \/ WaitsForMutex(lk, t) /\ lk.mutex = u

\* a cycle of tasks waiting on each other's locks
WaitCycle ==
    \E t \in LockTasks :
       \/ WaitsOn(t, t)
       \/ \E u \in LockTasks : WaitsOn(t, u) /\ WaitsOn(u, t)
       \/ \E u, v \in LockTasks : WaitsOn(t, u) /\ WaitsOn(u, v) /\ WaitsOn(v, t)

LockInv ==
    /\ \A t \in LockTasks :
          /\ Cardinality(HeldBy(lk, t)) <= 1
          /\ HeldBy(lk, t) # {} =>
                /\ NextOp(lk, t) \notin {"mutex_acquire", "send", "io"}
                /\ lk.mutex # t
                /\ lk.running = t
    /\ ~WaitCycle

\* task t requests the lock of its symbol / holds it
Requests(t) == t \in LockTasks /\ NextOp(lk, t) = "acquire"
Granted(t) == t \in LockTasks /\ HeldBy(lk, t) = {lk.tasks[t].symbol}

\* C34: lock discipline and deadlock freedom.  No task holds two symbol
\* locks at once; a task that holds a symbol lock neither acquires nor
\* waits for the fan-out mutex and performs no subscriber send and no
\* persistence I/O (it keeps running until it has released the lock, the
\* broadcasts it scheduled run afterwards); no state has a cycle of tasks
\* waiting on each other's locks; and every submit, cancel and activation
\* that requests a symbol lock eventually gets it.
LockDiscipline ==
    /\ []LockInv
    /\ \A t \in 1..MaxLockTasks : Requests(t) ~> Granted(t)

LockDisciplineWitness ==
    \E t, u, b \in LockTasks :
       /\ Granted(t) /\ NextOp(lk, t) = "release"
       /\ u # t /\ Requests(u) /\ lk.tasks[u].symbol = lk.tasks[t].symbol
       /\ lk.tasks[b].kind = "broadcast" /\ NextOp(lk, b) = "send"


\* every broadcast that was scheduled has completed
BroadcastsDone == \A i \in 1..Len(ws_tasks) : ws_tasks[i].pc = "done"

\* the market-data messages of a sequence for a symbol
MessagesFor(msgs, sym) == SelectSeq(msgs, LAMBDA m : m.symbol = sym)

\* the last market-data message for the symbol, if there is one, is the
\* snapshot of the book of the symbol as it is now
HoldsCurrent(msgs, sym) ==
    MessagesFor(msgs, sym) # <<>>
      => MessagesFor(msgs, sym)[Len(MessagesFor(msgs, sym))]
           = MarketdataMessage(sym, books[sym])

\* C35: the snapshot of a market-data message is taken when the broadcast
\* task runs; once every scheduled broadcast of a symbol has completed
\* (every change of the book has scheduled one), the last market-data
\* message each registered consumer received for the symbol is the
\* current snapshot_l2 of the book.
MarketdataConverges ==
    BroadcastsDone =>
       \A sym \in DOMAIN books :
          /\ \A w \in ws.marketdata_clients : HoldsCurrent(sockets[w].inbox, sym)
          /\ \A k \in 1..Len(ws.marketdata_streams) :
                HoldsCurrent(queues[ws.marketdata_streams[k]].log, sym)

====
